---- MODULE Spec2Model ----
(***************************************************************************)
(* DIP20 token canister.                                                   *)
(*                                                                         *)
(* Two variants of the ledger are modelled side by side:                   *)
(*   - the fee-forwarding variant, src/rust/token/src/main.rs, whose state *)
(*     lives in the thread_local cells BALANCES, ALLOWS, STATS and TXLOG   *)
(*     (specification Spec);                                               *)
(*   - the ledger-linked variant, src/token/src/main.rs (definitions       *)
(*     prefixed L_, specification L_Spec).                                 *)
(*                                                                         *)
(* A canister runs one message at a time.  An update call runs up to its   *)
(* first await in one step; every reply of an external call is a further   *)
(* step.  A panic traps the message: its changes are rolled back and the   *)
(* caller gets a reject.                                                   *)
(***************************************************************************)
EXTENDS Integers, Sequences, FiniteSets, TLC

(***************************************************************************)
(* Bounds of the model.                                                    *)
(***************************************************************************)
MaxValue      == 2   \* amounts passed to the calls are 0..MaxValue
MaxFee        == 1   \* fees passed to init and setFee are 0..MaxFee
MaxInitSupply == 3   \* init's total_supply is 0 or MaxInitSupply
MaxMessages   == 2   \* state-changing update calls explored after init
MaxCalls      == 2   \* calls suspended on the audit log at the same time
MaxSubmissions == 3  \* transfers explored after init by AuditSpec

Principals == {"alice", "bob", "john"}
Deployers  == {"alice"}   \* the owner given to init; setOwner reaches the others
Values     == 0..MaxValue
Supplies   == {0, MaxInitSupply}
Fees       == 0..MaxFee
Names      == {"token", "renamed"}
Logos      == {"logo", "new_logo"}

\* The fee-forwarding variant keeps its state in thread_local cells.  The
\* ledger-linked variant keeps STATS in the thread_local cell and the rest in
\* the canister storage of ic_kit (ic::get_mut::<T>()), where it also has a
\* second, default-initialised StatsData.
VARIABLES
  BALANCES,   \* HashMap<Principal, Nat>: thread_local BALANCES / storage Balances
  ALLOWS,     \* HashMap<Principal, HashMap<Principal, Nat>>: ALLOWS / Allowances
  STATS,      \* thread_local STATS: StatsData
  TXLOG,      \* TxLog.ie_records, a VecDeque: thread_local TXLOG / storage TxLog
  calls,      \* update calls suspended on a call to another canister
  cap,        \* the records the audit log service has accepted, in order
  time,       \* ic::time(); it advances with every state-changing update call
  ret,        \* the reply the latest step gave to a caller, NoReply if none
  StatsData,  \* ledger-linked variant: ic::get_mut::<StatsData>()
  UsedBlocks, \* ledger-linked variant: ic::get_mut::<UsedBlocks>()
  Genesis     \* ledger-linked variant: ic::get_mut::<Genesis>()

vars == <<BALANCES, ALLOWS, STATS, TXLOG, calls, cap, time, ret,
          StatsData, UsedBlocks, Genesis>>

\* The storage only the ledger-linked variant has.
kit == <<StatsData, UsedBlocks, Genesis>>

(***************************************************************************)
(* HashMap                                                                 *)
(***************************************************************************)
EmptyMap == [x \in {} |-> 0]

\* HashMap::insert
Ins(m, k, v) == [x \in (DOMAIN m) \cup {k} |-> IF x = k THEN v ELSE m[x]]

\* HashMap::remove
Rem(m, k) == [x \in (DOMAIN m) \ {k} |-> m[x]]

\* HashMap::get(k), with 0 for None
Get(m, k) == IF k \in DOMAIN m THEN m[k] ELSE 0

\* The value a panicking computation yields: no map of the program has this key.
Panic == [x \in {"panic"} |-> 0]

RECURSIVE SumOver(_, _)
SumOver(m, keys) ==
  IF keys = {} THEN 0
  ELSE LET k == CHOOSE x \in keys : TRUE IN m[k] + SumOver(m, keys \ {k})

\* The sum of the values a map stores.
Sum(m) == SumOver(m, DOMAIN m)

\* Principal::anonymous()
Anonymous == "anonymous"

\* impl Default for StatsData
StatsDataDefault ==
  [logo |-> "", name |-> "", symbol |-> "", decimals |-> 0, total_supply |-> 0,
   owner |-> Anonymous, fee |-> 0, fee_to |-> Anonymous, history_size |-> 0,
   deploy_time |-> 0]

\* impl Default for Genesis
GenesisDefault ==
  [caller |-> "none", operation |-> "Mint", from |-> Anonymous, to |-> Anonymous,
   amount |-> 0, fee |-> 0, timestamp |-> 0]

(***************************************************************************)
(* Queries of the fee-forwarding variant                                   *)
(***************************************************************************)
balance_of(id) == Get(BALANCES, id)

allowance(owner, spender) ==
  IF owner \in DOMAIN ALLOWS THEN Get(ALLOWS[owner], spender) ELSE 0

total_supply == STATS.total_supply

history_size == STATS.history_size

_get_fee == STATS.fee

_get_owner == STATS.owner

\* Mutant of _is_auth: the guard knows the deployer, not the current owner.
_is_auth_deployer(caller) == caller \in {"alice"}

\* Mutant of _is_auth: the guard lets every caller through.
_is_auth_anyone(caller) == TRUE

_is_auth(caller) == caller = STATS.owner

(***************************************************************************)
(* Internal functions of the fee-forwarding variant                        *)
(***************************************************************************)
\* Mutant of _transfer: the sender is not debited.
_transfer_no_debit(b, from, to, value) ==
  IF b = Panic \/ Get(b, from) < value THEN Panic
  ELSE LET to_balance_new == Get(b, to) + value
       IN IF to_balance_new # 0 THEN Ins(b, to, to_balance_new) ELSE b

\* Moves value from from to to in the balances b.  Nat subtraction panics on
\* underflow.
_transfer(b, from, to, value) ==
  IF b = Panic \/ Get(b, from) < value THEN Panic
  ELSE LET from_balance_new == Get(b, from) - value
           b1 == IF from_balance_new # 0 THEN Ins(b, from, from_balance_new)
                 ELSE Rem(b, from)
           to_balance_new == Get(b1, to) + value
       IN IF to_balance_new # 0 THEN Ins(b1, to, to_balance_new) ELSE b1

\* Mutant of _charge_fee: the fee goes to the owner, not to fee_to.
_charge_fee_to_owner(b, user, fee) ==
  IF STATS.fee > 0 THEN _transfer(b, user, STATS.owner, fee) ELSE b

_charge_fee(b, user, fee) ==
  IF STATS.fee > 0 THEN _transfer(b, user, STATS.fee_to, fee) ELSE b

\* Mutant of _history_inc: the counter is left as it is.
_history_inc_forgotten(s) == s

_history_inc(s) == [s EXCEPT !.history_size = @ + 1]

\* Mutant of transfer_from_allows: the spent allowance is stored, zero or not.
transfer_from_allows_keeps_zero(a, from, owner, value, fee) ==
  IF from \notin DOMAIN a THEN Panic
  ELSE LET inner == a[from] IN
       IF owner \notin DOMAIN inner THEN Panic
       ELSE LET result == inner[owner] IN
            IF result < value + fee THEN Panic
            ELSE Ins(a, from, Ins(inner, owner, result - value - fee))

\* Mutant of transfer_from_allows: the fee is not taken off the allowance.
transfer_from_allows_without_fee(a, from, owner, value, fee) ==
  IF from \notin DOMAIN a THEN Panic
  ELSE LET inner == a[from] IN
       IF owner \notin DOMAIN inner THEN Panic
       ELSE LET result == inner[owner] IN
            IF result < value + fee THEN Panic
            ELSE IF result - value # 0
                 THEN Ins(a, from, Ins(inner, owner, result - value))
                 ELSE LET temp == Rem(inner, owner) IN
                      IF Cardinality(DOMAIN temp) = 0 THEN Rem(a, from)
                      ELSE Ins(a, from, temp)

\* transfer_from's update of ALLOWS
transfer_from_allows(a, from, owner, value, fee) ==
  IF from \notin DOMAIN a THEN Panic                         \* assert!(false)
  ELSE LET inner == a[from] IN
       IF owner \notin DOMAIN inner THEN Panic               \* unwrap() of None
       ELSE LET result == inner[owner] IN
            IF result < value + fee THEN Panic               \* Nat underflow
            ELSE IF result - value - fee # 0
                 THEN Ins(a, from, Ins(inner, owner, result - value - fee))
                 ELSE LET temp == Rem(inner, owner) IN
                      IF Cardinality(DOMAIN temp) = 0 THEN Rem(a, from)
                      ELSE Ins(a, from, temp)

\* Mutant of approve_allows: the grant is added to the allowance there was.
approve_allows_adds(a, owner, spender, v) ==
  LET inner == IF owner \in DOMAIN a THEN a[owner] ELSE EmptyMap
      sum == Get(inner, spender) + v
  IN IF sum # 0 THEN Ins(a, owner, Ins(inner, spender, sum)) ELSE a

\* approve's update of ALLOWS
approve_allows(a, owner, spender, v) ==
  IF owner \in DOMAIN a
  THEN LET inner == a[owner] IN
       IF v # 0 THEN Ins(a, owner, Ins(inner, spender, v))
       ELSE LET temp == Rem(inner, spender) IN
            IF Cardinality(DOMAIN temp) = 0 THEN Rem(a, owner)
            ELSE Ins(a, owner, temp)
  ELSE IF v # 0 THEN Ins(a, owner, Ins(EmptyMap, spender, v)) ELSE a

(***************************************************************************)
(* The audit outbox of the fee-forwarding variant                          *)
(***************************************************************************)
TxRecord(caller, op, from, to, amount, fee, timestamp) ==
  [caller |-> caller, operation |-> op, from |-> from, to |-> to,
   amount |-> amount, fee |-> fee, timestamp |-> timestamp]

\* insert_into_cap up to its first await: the whole log is taken out of TXLOG,
\* its head is the record to send again, and the call suspends on an insert.
insert_into_cap(api, ie) ==
  LET tx_log == TXLOG IN
  /\ TXLOG' = <<>>
  /\ calls' = calls \cup
       {IF tx_log # <<>>
        THEN [api |-> api, pc |-> "retry", failed_ie |-> <<Head(tx_log)>>, ie |-> ie]
        ELSE [api |-> api, pc |-> "new", failed_ie |-> <<>>, ie |-> ie]}

add_record(api, caller, op, from, to, amount, fee) ==
  /\ insert_into_cap(api, TxRecord(caller, op, from, to, amount, fee, time))
  /\ time' = time + 1

\* insert_into_cap_priv with push_front() for push_back().
insert_into_cap_priv_front(ie, ok) ==
  IF ok THEN cap' = Append(cap, ie) /\ TXLOG' = TXLOG
  ELSE TXLOG' = <<ie>> \o TXLOG /\ cap' = cap

\* insert_into_cap_priv after the reply of insert: a failed record goes to the
\* back of TXLOG, an accepted one is in the audit log.
insert_into_cap_priv(ie, ok) ==
  IF ok THEN cap' = Append(cap, ie) /\ TXLOG' = TXLOG
  ELSE TXLOG' = Append(TXLOG, ie) /\ cap' = cap

NoReply == [op |-> "none", res |-> "none"]

Return(api, res) == ret' = [op |-> api, res |-> res]

\* A trap or a rejected guard: nothing of the message is kept.
Abort(api, res) ==
  /\ Return(api, res)
  /\ UNCHANGED <<BALANCES, ALLOWS, STATS, TXLOG, calls, cap, time>>

\* The reply of the insert of the failed record; then the new record is sent.
retry_reply(k, ok) ==
  /\ k \in calls
  /\ k.pc = "retry"
  /\ insert_into_cap_priv(k.failed_ie[1], ok)
  /\ calls' = (calls \ {k}) \cup {[k EXCEPT !.pc = "new"]}
  /\ ret' = NoReply
  /\ UNCHANGED <<BALANCES, ALLOWS, STATS, time>>

\* The reply of the insert of the new record; the update call returns.
insert_reply(k, ok) ==
  /\ k \in calls
  /\ k.pc = "new"
  /\ insert_into_cap_priv(k.ie, ok)
  /\ calls' = calls \ {k}
  /\ Return(k.api, IF ok THEN "Ok" ELSE "Other")
  /\ UNCHANGED <<BALANCES, ALLOWS, STATS, time>>

(***************************************************************************)
(* init and the update calls of the fee-forwarding variant                 *)
(***************************************************************************)
\* The future of init's add_record is dropped without being polled: no record
\* is handed to the outbox.
init(logo, name, symbol, decimals, supply, owner, fee, fee_to) ==
  /\ STATS = [logo |-> logo, name |-> name, symbol |-> symbol,
              decimals |-> decimals, total_supply |-> supply, owner |-> owner,
              fee |-> fee, fee_to |-> fee_to, history_size |-> 1,
              deploy_time |-> 1]
  /\ BALANCES = Ins(EmptyMap, owner, supply)
  /\ ALLOWS = EmptyMap
  /\ TXLOG = <<>>
  /\ calls = {}
  /\ cap = <<>>
  /\ time = 2
  /\ ret = NoReply

\* Mutant of transfer: the sufficiency check leaves the fee out.
transfer_checks_value_only(from, to, value) ==
  LET fee == _get_fee IN
  IF balance_of(from) < value
  THEN Abort("transfer", "InsufficientBalance")
  ELSE LET b == _transfer(_charge_fee(BALANCES, from, fee), from, to, value) IN
       IF b = Panic THEN Abort("transfer", "Trap")
       ELSE /\ BALANCES' = b
            /\ STATS' = _history_inc(STATS)
            /\ add_record("transfer", from, "Transfer", from, to, value, fee)
            /\ ret' = NoReply
            /\ UNCHANGED <<ALLOWS, cap>>

transfer(from, to, value) ==
  LET fee == _get_fee IN
  IF balance_of(from) < value + fee
  THEN Abort("transfer", "InsufficientBalance")
  ELSE LET b == _transfer(_charge_fee(BALANCES, from, fee), from, to, value) IN
       IF b = Panic THEN Abort("transfer", "Trap")
       ELSE /\ BALANCES' = b
            /\ STATS' = _history_inc(STATS)
            /\ add_record("transfer", from, "Transfer", from, to, value, fee)
            /\ ret' = NoReply
            /\ UNCHANGED <<ALLOWS, cap>>

\* Mutant of transfer_from: the allowance covers the value and not the fee.
transfer_from_fee_unapproved(owner, from, to, value) ==
  LET fee == _get_fee IN
  IF allowance(from, owner) < value
  THEN Abort("transferFrom", "InsufficientAllowance")
  ELSE IF balance_of(from) < value + fee
  THEN Abort("transferFrom", "InsufficientBalance")
  ELSE LET b == _transfer(_charge_fee(BALANCES, from, fee), from, to, value)
           a == transfer_from_allows(ALLOWS, from, owner, value, 0)
       IN IF b = Panic \/ a = Panic THEN Abort("transferFrom", "Trap")
          ELSE /\ BALANCES' = b
               /\ ALLOWS' = a
               /\ STATS' = _history_inc(STATS)
               /\ add_record("transferFrom", owner, "TransferFrom", from, to, value, fee)
               /\ ret' = NoReply
               /\ UNCHANGED cap

\* Mutant of transfer_from: the balance is checked before the allowance.
transfer_from_checks_balance_first(owner, from, to, value) ==
  LET fee == _get_fee IN
  IF balance_of(from) < value + fee
  THEN Abort("transferFrom", "InsufficientBalance")
  ELSE IF allowance(from, owner) < value + fee
  THEN Abort("transferFrom", "InsufficientAllowance")
  ELSE LET b == _transfer(_charge_fee(BALANCES, from, fee), from, to, value)
           a == transfer_from_allows(ALLOWS, from, owner, value, fee)
       IN IF b = Panic \/ a = Panic THEN Abort("transferFrom", "Trap")
          ELSE /\ BALANCES' = b
               /\ ALLOWS' = a
               /\ STATS' = _history_inc(STATS)
               /\ add_record("transferFrom", owner, "TransferFrom", from, to, value, fee)
               /\ ret' = NoReply
               /\ UNCHANGED cap

transfer_from(owner, from, to, value) ==
  LET fee == _get_fee IN
  IF allowance(from, owner) < value + fee
  THEN Abort("transferFrom", "InsufficientAllowance")
  ELSE IF balance_of(from) < value + fee
  THEN Abort("transferFrom", "InsufficientBalance")
  ELSE LET b == _transfer(_charge_fee(BALANCES, from, fee), from, to, value)
           a == transfer_from_allows(ALLOWS, from, owner, value, fee)
       IN IF b = Panic \/ a = Panic THEN Abort("transferFrom", "Trap")
          ELSE /\ BALANCES' = b
               /\ ALLOWS' = a
               /\ STATS' = _history_inc(STATS)
               /\ add_record("transferFrom", owner, "TransferFrom", from, to, value, fee)
               /\ ret' = NoReply
               /\ UNCHANGED cap

approve(owner, spender, value) ==
  LET fee == _get_fee IN
  IF balance_of(owner) < fee
  THEN Abort("approve", "InsufficientBalance")
  ELSE LET b == _charge_fee(BALANCES, owner, fee)
           v == value + fee
       IN IF b = Panic THEN Abort("approve", "Trap")
          ELSE /\ BALANCES' = b
               /\ ALLOWS' = approve_allows(ALLOWS, owner, spender, v)
               /\ STATS' = _history_inc(STATS)
               /\ add_record("approve", owner, "Approve", owner, spender, v, fee)
               /\ ret' = NoReply
               /\ UNCHANGED cap

\* Mutant of burn: the amount is taken from the owner's balance.
burn_from_owner(caller, amount) ==
  LET caller_balance == balance_of(caller)
      owner_balance == balance_of(STATS.owner)
  IN
  IF caller_balance < amount
  THEN Abort("burn", "InsufficientBalance")
  ELSE IF STATS.total_supply < amount \/ owner_balance < amount
  THEN Abort("burn", "Trap")
  ELSE /\ BALANCES' = Ins(BALANCES, STATS.owner, owner_balance - amount)
       /\ STATS' = _history_inc([STATS EXCEPT !.total_supply = @ - amount])
       /\ add_record("burn", caller, "Burn", caller, caller, amount, 0)
       /\ ret' = NoReply
       /\ UNCHANGED <<ALLOWS, cap>>

burn(caller, amount) ==
  LET caller_balance == balance_of(caller) IN
  IF caller_balance < amount
  THEN Abort("burn", "InsufficientBalance")
  ELSE IF STATS.total_supply < amount THEN Abort("burn", "Trap")
  ELSE /\ BALANCES' = Ins(BALANCES, caller, caller_balance - amount)
       /\ STATS' = _history_inc([STATS EXCEPT !.total_supply = @ - amount])
       /\ add_record("burn", caller, "Burn", caller, caller, amount, 0)
       /\ ret' = NoReply
       /\ UNCHANGED <<ALLOWS, cap>>

mint(caller, to, amount) ==
  IF ~_is_auth(caller) THEN Abort("mint", "Rejected")
  ELSE LET to_balance == balance_of(to) IN
       /\ BALANCES' = Ins(BALANCES, to, to_balance + amount)
       /\ STATS' = _history_inc([STATS EXCEPT !.total_supply = @ + amount])
       /\ add_record("mint", caller, "Mint", caller, to, amount, 0)
       /\ ret' = NoReply
       /\ UNCHANGED <<ALLOWS, cap>>

\* The body of a setter behind the _is_auth guard.
Guarded(api, caller, stats) ==
  IF ~_is_auth(caller) THEN Abort(api, "Rejected")
  ELSE /\ STATS' = stats
       /\ ret' = NoReply
       /\ time' = time + 1
       /\ UNCHANGED <<BALANCES, ALLOWS, TXLOG, calls, cap>>

set_name(caller, name) == Guarded("setName", caller, [STATS EXCEPT !.name = name])

set_logo(caller, logo) == Guarded("setLogo", caller, [STATS EXCEPT !.logo = logo])

set_fee(caller, fee) == Guarded("setFee", caller, [STATS EXCEPT !.fee = fee])

set_fee_to(caller, fee_to) == Guarded("setFeeTo", caller, [STATS EXCEPT !.fee_to = fee_to])

\* Mutant of set_owner: the fee recipient follows the owner.
set_owner_and_fee_to(caller, owner) ==
  Guarded("setOwner", caller, [STATS EXCEPT !.owner = owner, !.fee_to = owner])

set_owner(caller, owner) == Guarded("setOwner", caller, [STATS EXCEPT !.owner = owner])

(***************************************************************************)
(* Upgrade of the fee-forwarding variant                                   *)
(***************************************************************************)
\* The candid encoding of a HashMap: its (key, value) pairs, in no order.
EncodeMap(m) == {<<k, m[k]>> : k \in DOMAIN m}

\* Decoding collects the pairs into a HashMap.
DecodeMap(pairs) ==
  [k \in {p[1] : p \in pairs} |-> (CHOOSE p \in pairs : p[1] = k)[2]]

EncodeAllows(a) == {<<k, EncodeMap(a[k])>> : k \in DOMAIN a}

DecodeAllows(pairs) ==
  [k \in {p[1] : p \in pairs} |->
     DecodeMap((CHOOSE p \in pairs : p[1] = k)[2])]

\* Mutant of pre_upgrade: the outbox is not stored.
pre_upgrade_without_tx_log ==
  <<STATS, EncodeMap(BALANCES), EncodeAllows(ALLOWS), <<>>>>

\* What pre_upgrade writes to stable memory: (stats, balances, allows, tx_log).
pre_upgrade ==
  <<STATS, EncodeMap(BALANCES), EncodeAllows(ALLOWS), TXLOG>>

\* What ic::stable_restore decodes from stable memory.
stable_restore(stored) ==
  [metadata_stored |-> stored[1],
   balances_stored |-> DecodeMap(stored[2]),
   allowances_stored |-> DecodeAllows(stored[3]),
   tx_log_stored |-> stored[4]]

\* post_upgrade on the fresh instance, from what stable memory holds.
post_upgrade(stored) ==
  LET r == stable_restore(stored) IN
  /\ STATS' = r.metadata_stored
  /\ BALANCES' = r.balances_stored
  /\ ALLOWS' = r.allowances_stored
  /\ TXLOG' = r.tx_log_stored

\* An upgrade of the stopped canister (no call is suspended): pre_upgrade on
\* the old instance, then post_upgrade on the new one.
upgrade ==
  /\ calls = {}
  /\ post_upgrade(pre_upgrade)
  /\ time' = time + 1
  /\ ret' = [op |-> "upgrade", res |-> "Done"]
  /\ UNCHANGED <<calls, cap>>

(***************************************************************************)
(* Specification of the fee-forwarding variant                             *)
(***************************************************************************)
Init ==
  \E supply \in Supplies, owner \in Deployers, fee \in Fees,
     fee_to \in Principals :
    /\ init("logo", "token", "TOKEN", 2, supply, owner, fee, fee_to)
    /\ StatsData = StatsDataDefault   \* this variant has no such storage
    /\ UsedBlocks = {}
    /\ Genesis = GenesisDefault

\* A call that failed validation, was rejected by its guard or trapped has
\* changed nothing but ret: the behaviours that go on after it are the ones
\* that go on from the state before it, and are explored from there.
Aborted ==
  ret.res \in {"InsufficientBalance", "InsufficientAllowance", "Rejected", "Trap"}

\* The update calls the model explores.
Explored ==
  /\ ~Aborted
  /\ time < 2 + MaxMessages
  /\ Cardinality(calls) < MaxCalls

Next ==
  \/ \E caller, to \in Principals, value \in Values :
       Explored /\ transfer(caller, to, value) /\ UNCHANGED kit
  \/ \E caller, from, to \in Principals, value \in Values :
       Explored /\ transfer_from(caller, from, to, value) /\ UNCHANGED kit
  \/ \E caller, spender \in Principals, value \in Values :
       Explored /\ approve(caller, spender, value) /\ UNCHANGED kit
  \/ \E caller \in Principals, amount \in Values :
       Explored /\ burn(caller, amount) /\ UNCHANGED kit
  \/ \E caller, to \in Principals, amount \in Values :
       Explored /\ mint(caller, to, amount) /\ UNCHANGED kit
  \/ \E caller \in Principals, name \in Names : Explored /\ set_name(caller, name) /\ UNCHANGED kit
  \/ \E caller \in Principals, logo \in Logos : Explored /\ set_logo(caller, logo) /\ UNCHANGED kit
  \/ \E caller \in Principals, fee \in Fees : Explored /\ set_fee(caller, fee) /\ UNCHANGED kit
  \/ \E caller, fee_to \in Principals : Explored /\ set_fee_to(caller, fee_to) /\ UNCHANGED kit
  \/ \E caller, owner \in Principals : Explored /\ set_owner(caller, owner) /\ UNCHANGED kit
  \/ Explored /\ upgrade /\ UNCHANGED kit
  \/ \E k \in calls, ok \in BOOLEAN : ~Aborted /\ retry_reply(k, ok) /\ UNCHANGED kit
  \/ \E k \in calls, ok \in BOOLEAN : ~Aborted /\ insert_reply(k, ok) /\ UNCHANGED kit

Spec == Init /\ [][Next]_vars

(***************************************************************************)
(* The audit outbox of the fee-forwarding variant under more submissions:  *)
(* the deployer's transfers with no fee, and the replies of the audit log. *)
(***************************************************************************)
AuditInit ==
  /\ init("logo", "token", "TOKEN", 2, MaxInitSupply, "alice", 0, "alice")
  /\ StatsData = StatsDataDefault
  /\ UsedBlocks = {}
  /\ Genesis = GenesisDefault

AuditExplored ==
  /\ ~Aborted
  /\ time < 2 + MaxSubmissions
  /\ Cardinality(calls) < MaxCalls

AuditNext ==
  \/ \E caller \in Deployers, to \in Principals, value \in Values :
       AuditExplored /\ transfer(caller, to, value) /\ UNCHANGED kit
  \/ \E k \in calls, ok \in BOOLEAN : ~Aborted /\ retry_reply(k, ok) /\ UNCHANGED kit
  \/ \E k \in calls, ok \in BOOLEAN : ~Aborted /\ insert_reply(k, ok) /\ UNCHANGED kit

AuditSpec == AuditInit /\ [][AuditNext]_vars

(***************************************************************************)
(* Allowances of the fee-forwarding variant under more submissions: the    *)
(* deployer's grants, the spenders' draws on them, and the replies of the  *)
(* audit log.                                                              *)
(***************************************************************************)
MaxSpends == 3   \* approves and transferFroms explored after init by AllowSpec

AllowInit ==
  /\ \E fee \in Fees :
       init("logo", "token", "TOKEN", 2, MaxInitSupply, "alice", fee, "alice")
  /\ StatsData = StatsDataDefault
  /\ UsedBlocks = {}
  /\ Genesis = GenesisDefault

AllowExplored ==
  /\ ~Aborted
  /\ time < 2 + MaxSpends
  /\ Cardinality(calls) < MaxCalls

AllowNext ==
  \/ \E caller \in Deployers, spender \in Principals, value \in Values :
       AllowExplored /\ approve(caller, spender, value) /\ UNCHANGED kit
  \/ \E caller \in Principals, from \in Deployers, value \in Values :
       AllowExplored /\ transfer_from(caller, from, caller, value) /\ UNCHANGED kit
  \/ \E k \in calls, ok \in BOOLEAN : ~Aborted /\ retry_reply(k, ok) /\ UNCHANGED kit
  \/ \E k \in calls, ok \in BOOLEAN : ~Aborted /\ insert_reply(k, ok) /\ UNCHANGED kit

AllowSpec == AllowInit /\ [][AllowNext]_vars

(***************************************************************************)
(* The queries of the fee-forwarding variant                               *)
(***************************************************************************)
\* The width of usize in the model.  (The wasm32 target has 32 bits; the
\* arithmetic of get_holders wraps in the same way at any width.)
UsizeBits == 8

Usize == 2 ^ UsizeBits

get_metadata ==
  [logo |-> STATS.logo, name |-> STATS.name, symbol |-> STATS.symbol,
   decimals |-> STATS.decimals, totalSupply |-> STATS.total_supply,
   owner |-> STATS.owner, fee |-> STATS.fee]

\* (cycles, the canister's cycle balance, is left out.)
get_token_info ==
  [metadata |-> get_metadata, feeTo |-> STATS.fee_to,
   historySize |-> STATS.history_size, deployTime |-> STATS.deploy_time,
   holderNumber |-> Cardinality(DOMAIN BALANCES)]

\* What balance.sort_by(|a, b| b.1.cmp(&a.1)) can leave: the holders in an
\* order of falling balances; holders of equal balances are in the order the
\* HashMap iterated them, which is any.
HolderOrders ==
  {order \in [1..Cardinality(DOMAIN BALANCES) -> DOMAIN BALANCES] :
     /\ \A i, j \in DOMAIN order : i # j => order[i] # order[j]
     /\ \A i, j \in DOMAIN order : i < j => BALANCES[order[i]] >= BALANCES[order[j]]}

\* The value of a query, or its trap.
Value(v) == [ok |-> TRUE, value |-> v]

Trapped == [ok |-> FALSE]

\* get_holders on the sorted holders order.  An overflowing usize addition or
\* subtraction panics in a build with overflow checks and wraps in one
\* without; a slice whose start is after its end, or whose end is after the
\* length, panics in both.
get_holders(start, limit, overflow_checks, order) ==
  LET len == Len(order)
      sum == start + limit
      diff == len - start
  IN
  IF overflow_checks /\ sum >= Usize THEN Trapped
  ELSE IF (sum % Usize) > len /\ overflow_checks /\ diff < 0 THEN Trapped
  ELSE LET limit2 == IF (sum % Usize) > len THEN diff % Usize ELSE limit
           end == start + limit2
           upto == end % Usize
       IN IF overflow_checks /\ end >= Usize THEN Trapped
          ELSE IF start > upto \/ upto > len THEN Trapped
          ELSE Value([i \in 1..(upto - start) |->
                        <<order[start + i], BALANCES[order[start + i]]>>])

\* A query call and its reply: nothing of the canister changes.
Query(api, r) ==
  /\ ret' = IF r.ok THEN [op |-> api, res |-> "Ok", value |-> r.value]
            ELSE [op |-> api, res |-> "Trap"]
  /\ UNCHANGED <<BALANCES, ALLOWS, STATS, TXLOG, calls, cap, time, kit>>

QueryNames == {"balanceOf", "allowance", "getMetadata", "getHolders", "getTokenInfo"}

MaxStart == 3

MaxLimit == 2

Starts == 0..MaxStart

\* The limits of getHolders: small ones and the greatest usize.
Limits == (0..MaxLimit) \cup {Usize - 1}

\* The reply of a query, like a call that changed nothing, is looked at and
\* the behaviours go on from the state before it.
QueryExplored == Explored /\ ret.op \notin QueryNames

Answering == ~Aborted /\ ret.op \notin QueryNames

QueryNext ==
  \/ \E caller \in Deployers, to \in Principals, value \in Values :
       QueryExplored /\ transfer(caller, to, value) /\ UNCHANGED kit
  \/ \E caller \in Deployers, spender \in Principals, value \in Values :
       QueryExplored /\ approve(caller, spender, value) /\ UNCHANGED kit
  \/ \E caller \in Deployers, amount \in Values :
       QueryExplored /\ burn(caller, amount) /\ UNCHANGED kit
  \/ \E k \in calls, ok \in BOOLEAN : Answering /\ retry_reply(k, ok) /\ UNCHANGED kit
  \/ \E k \in calls, ok \in BOOLEAN : Answering /\ insert_reply(k, ok) /\ UNCHANGED kit
  \/ \E id \in Principals : Answering /\ Query("balanceOf", Value(balance_of(id)))
  \/ \E owner, spender \in Principals :
       Answering /\ Query("allowance", Value(allowance(owner, spender)))
  \/ Answering /\ Query("getMetadata", Value(get_metadata))
  \/ \E start \in Starts, limit \in Limits, overflow_checks \in BOOLEAN,
        order \in HolderOrders :
       Answering /\ Query("getHolders", get_holders(start, limit, overflow_checks, order))
  \/ Answering /\ Query("getTokenInfo", Value(get_token_info))

QuerySpec == Init /\ [][QueryNext]_vars

(***************************************************************************)
(* The ledger-linked variant, src/token/src/main.rs                        *)
(***************************************************************************)
ICPFEE == 10000   \* const ICPFEE: Tokens, in e8s

THRESHOLD == 0    \* const THRESHOLD: Tokens, in e8s

\* ic::id(), the principal of the token canister
Canister == "canister"

Subaccounts == {"none"}

\* The callers of mintFor; the principal minted for is any of Principals.
Relayers == {"john"}

\* The text given to withdraw as the account to pay: hex of an account or not.
Addresses == {"hex", "not_hex"}

\* The amounts asked of withdraw, a u64 of e8s.
WithdrawValues == {0, ICPFEE}

AccountIdentifier(principal, sub_account) == <<principal, sub_account>>

\* The blocks of the ICP ledger, by block height; the heights above hold no
\* block.  An archived block is served by the archive canister the ledger names.
Ledger ==
  << [operation |-> "Transfer", from |-> AccountIdentifier("alice", "none"),
      to |-> AccountIdentifier(Canister, "none"), amount |-> ICPFEE,
      archived |-> FALSE],
     [operation |-> "Transfer", from |-> AccountIdentifier("bob", "none"),
      to |-> AccountIdentifier(Canister, "none"), amount |-> 1,
      archived |-> TRUE],
     [operation |-> "Transfer", from |-> AccountIdentifier("alice", "none"),
      to |-> AccountIdentifier("john", "none"), amount |-> 1,
      archived |-> FALSE],
     [operation |-> "Burn", from |-> AccountIdentifier("alice", "none"),
      to |-> AccountIdentifier("alice", "none"), amount |-> 1,
      archived |-> FALSE] >>

BlockHeights == 1..(Len(Ledger) + 1)

\* What the call of block_pb can come back with.
BlockResponses(block_height) ==
  {"Err"} \cup
    (IF block_height \notin DOMAIN Ledger THEN {"None"}
     ELSE IF Ledger[block_height].archived THEN {"Archived"} ELSE {"Block"})

\* What the call of the archive's get_block_pb can come back with.
ArchiveResponses == {"Err", "Block"}

L_balance_of(id) == Get(BALANCES, id)

L_allowance(owner, spender) ==
  IF owner \in DOMAIN ALLOWS THEN Get(ALLOWS[owner], spender) ELSE 0

\* totalSupply() reads the thread_local STATS.
L_total_supply == STATS.total_supply

L_history_size == STATS.history_size

L__is_auth(caller) == caller = STATS.owner

L__transfer(b, from, to, value) ==
  IF b = Panic \/ Get(b, from) < value THEN Panic
  ELSE LET from_balance_new == Get(b, from) - value
           b1 == IF from_balance_new # 0 THEN Ins(b, from, from_balance_new)
                 ELSE Rem(b, from)
           to_balance_new == Get(b1, to) + value
       IN IF to_balance_new # 0 THEN Ins(b1, to, to_balance_new) ELSE b1

\* The fee charged is the one of the thread_local STATS.
L__charge_fee(b, user) ==
  IF STATS.fee > 0 THEN L__transfer(b, user, STATS.fee_to, STATS.fee) ELSE b

L__history_inc(s) == [s EXCEPT !.history_size = @ + 1]

\* The locals a suspended call of mint, mintFor or withdraw goes on with.
Locals(caller, sub_account, block_height, to_p, value) ==
  [caller |-> caller, sub_account |-> sub_account,
   block_height |-> block_height, to_p |-> to_p, value |-> value]

NoLocals == Locals("none", "none", 0, "none", 0)

\* A suspended call: id tells two calls with the same arguments apart, pc is
\* the call to another canister it waits for.
Call(id, api, pc, failed_ie, ie, locals) ==
  [id |-> id, api |-> api, pc |-> pc, failed_ie |-> failed_ie, ie |-> ie,
   locals |-> locals]

\* insert_into_cap reading the head of the outbox with front(), which leaves
\* it in the queue, instead of pop_front().
L_insert_into_cap_front(cs, id, api, ie) ==
  IF TXLOG # <<>>
  THEN /\ TXLOG' = TXLOG
       /\ calls' = cs \cup {Call(id, api, "retry", <<Head(TXLOG)>>, <<ie>>, NoLocals)}
  ELSE /\ TXLOG' = TXLOG
       /\ calls' = cs \cup {Call(id, api, "new", <<>>, <<ie>>, NoLocals)}

\* insert_into_cap that pops the head of the outbox and sends only the new
\* record.
L_insert_into_cap_drops_head(cs, id, api, ie) ==
  /\ TXLOG' = IF TXLOG # <<>> THEN Tail(TXLOG) ELSE TXLOG
  /\ calls' = cs \cup {Call(id, api, "new", <<>>, <<ie>>, NoLocals)}

\* insert_into_cap up to its first await, in the call id of api, the other
\* suspended calls being cs: the head of the outbox, if any, is sent first.
L_insert_into_cap(cs, id, api, ie) ==
  IF TXLOG # <<>>
  THEN /\ TXLOG' = Tail(TXLOG)
       /\ calls' = cs \cup {Call(id, api, "retry", <<Head(TXLOG)>>, <<ie>>, NoLocals)}
  ELSE /\ TXLOG' = TXLOG
       /\ calls' = cs \cup {Call(id, api, "new", <<>>, <<ie>>, NoLocals)}

\* add_record at the start of an update call.
L_add_record(api, caller, op, from, to, amount, fee, timestamp) ==
  /\ L_insert_into_cap(calls, time, api,
                       TxRecord(caller, op, from, to, amount, fee, timestamp))
  /\ time' = time + 1

\* The call k returns res; nothing else changes.
Finish(k, res) ==
  /\ calls' = calls \ {k}
  /\ Return(k.api, res)
  /\ UNCHANGED <<BALANCES, ALLOWS, STATS, TXLOG, cap, time, kit>>

L_Abort(api, res) == Abort(api, res) /\ UNCHANGED kit

\* The reply of the insert of the failed record in a drain loop: when it is
\* accepted and the outbox holds more, the next head is sent as well.
L_retry_reply_drain(k, ok) ==
  /\ k \in calls
  /\ k.pc = "retry"
  /\ IF ok /\ TXLOG # <<>>
     THEN /\ cap' = Append(cap, k.failed_ie[1])
          /\ TXLOG' = Tail(TXLOG)
          /\ calls' = (calls \ {k}) \cup {[k EXCEPT !.failed_ie = <<Head(TXLOG)>>]}
     ELSE /\ insert_into_cap_priv(k.failed_ie[1], ok)
          /\ calls' = (calls \ {k}) \cup {[k EXCEPT !.pc = "new"]}
  /\ ret' = NoReply
  /\ UNCHANGED <<BALANCES, ALLOWS, STATS, time, kit>>

\* The reply of the insert of the failed record; then the new record is sent.
L_retry_reply(k, ok) ==
  /\ k \in calls
  /\ k.pc = "retry"
  /\ insert_into_cap_priv(k.failed_ie[1], ok)
  /\ calls' = (calls \ {k}) \cup {[k EXCEPT !.pc = "new"]}
  /\ ret' = NoReply
  /\ UNCHANGED <<BALANCES, ALLOWS, STATS, time, kit>>

L_insert_reply(k, ok) ==
  /\ k \in calls
  /\ k.pc = "new"
  /\ insert_into_cap_priv(k.ie[1], ok)
  /\ calls' = calls \ {k}
  /\ Return(k.api, IF ok THEN "Ok" ELSE "Other")
  /\ UNCHANGED <<BALANCES, ALLOWS, STATS, time, kit>>

L_init(logo, name, symbol, decimals, initial_supply, owner, fee, fee_to) ==
  /\ STATS = [logo |-> logo, name |-> name, symbol |-> symbol,
              decimals |-> decimals, total_supply |-> initial_supply,
              owner |-> owner, fee |-> fee, fee_to |-> fee_to,
              history_size |-> 1, deploy_time |-> 1]
  /\ StatsData = StatsDataDefault
  /\ BALANCES = Ins(EmptyMap, owner, initial_supply)
  /\ Genesis = [caller |-> owner, operation |-> "Mint", from |-> "aaaaa-aa",
                to |-> owner, amount |-> initial_supply, fee |-> fee,
                timestamp |-> 1]
  /\ ALLOWS = EmptyMap
  /\ UsedBlocks = {}
  /\ TXLOG = <<>>
  /\ calls = {}
  /\ cap = <<>>
  /\ time = 2
  /\ ret = NoReply

\* The checks read the fee of the storage's StatsData, the charge the fee of
\* the thread_local STATS.
L_transfer(from, to, value) ==
  LET stats == StatsData IN
  IF L_balance_of(from) < value + stats.fee
  THEN L_Abort("transfer", "InsufficientBalance")
  ELSE LET b == L__transfer(L__charge_fee(BALANCES, from), from, to, value) IN
       IF b = Panic THEN L_Abort("transfer", "Trap")
       ELSE /\ BALANCES' = b
            /\ STATS' = L__history_inc(STATS)
            /\ L_add_record("transfer", from, "Transfer", from, to, value,
                            stats.fee, time)
            /\ ret' = NoReply
            /\ UNCHANGED <<ALLOWS, cap, kit>>

\* transfer_from's update of the allowances
L_transfer_from_allows(a, from, owner, value, fee) ==
  IF from \notin DOMAIN a THEN Panic                         \* assert!(false)
  ELSE LET inner == a[from] IN
       IF owner \notin DOMAIN inner THEN Panic               \* unwrap() of None
       ELSE LET result == inner[owner] IN
            IF result < value + fee THEN Panic               \* Nat underflow
            ELSE IF result - value - fee # 0
                 THEN Ins(a, from, Ins(inner, owner, result - value - fee))
                 ELSE LET temp == Rem(inner, owner) IN
                      IF Cardinality(DOMAIN temp) = 0 THEN Rem(a, from)
                      ELSE Ins(a, from, temp)

L_transfer_from(owner, from, to, value) ==
  LET stats == StatsData IN
  IF L_allowance(from, owner) < value + stats.fee
  THEN L_Abort("transferFrom", "InsufficientAllowance")
  ELSE IF L_balance_of(from) < value + stats.fee
  THEN L_Abort("transferFrom", "InsufficientBalance")
  ELSE LET b == L__transfer(L__charge_fee(BALANCES, from), from, to, value)
           a == L_transfer_from_allows(ALLOWS, from, owner, value, stats.fee)
       IN IF b = Panic \/ a = Panic THEN L_Abort("transferFrom", "Trap")
          ELSE /\ BALANCES' = b
               /\ ALLOWS' = a
               /\ STATS' = L__history_inc(STATS)
               /\ L_add_record("transferFrom", owner, "TransferFrom", from, to,
                               value, stats.fee, time)
               /\ ret' = NoReply
               /\ UNCHANGED <<cap, kit>>

\* approve's update of the allowances
L_approve_allows(a, owner, spender, v) ==
  IF owner \in DOMAIN a
  THEN LET inner == a[owner] IN
       IF v # 0 THEN Ins(a, owner, Ins(inner, spender, v))
       ELSE LET temp == Rem(inner, spender) IN
            IF Cardinality(DOMAIN temp) = 0 THEN Rem(a, owner)
            ELSE Ins(a, owner, temp)
  ELSE IF v # 0 THEN Ins(a, owner, Ins(EmptyMap, spender, v)) ELSE a

L_approve(owner, spender, value) ==
  LET stats == StatsData IN
  IF L_balance_of(owner) < stats.fee
  THEN L_Abort("approve", "InsufficientBalance")
  ELSE LET b == L__charge_fee(BALANCES, owner)
           v == value + stats.fee
       IN IF b = Panic THEN L_Abort("approve", "Trap")
          ELSE /\ BALANCES' = b
               /\ ALLOWS' = L_approve_allows(ALLOWS, owner, spender, v)
               /\ STATS' = L__history_inc(STATS)
               /\ L_add_record("approve", owner, "Approve", owner, spender, v,
                               stats.fee, time)
               /\ ret' = NoReply
               /\ UNCHANGED <<cap, kit>>

\* A call suspends on a call of the ledger: nothing but the call is new.
Suspend(api, pc, locals) ==
  /\ calls' = calls \cup {Call(time, api, pc, <<>>, <<>>, locals)}
  /\ time' = time + 1
  /\ ret' = NoReply

\* mint up to its first await, the call of the ledger's block_pb
L_mint(caller, sub_account, block_height) ==
  /\ Suspend("mint", "block_pb",
             Locals(caller, sub_account, block_height, caller, 0))
  /\ UNCHANGED <<BALANCES, ALLOWS, STATS, TXLOG, cap, kit>>

\* mint from the block it fetched on, without the assert on the insert into
\* the used-block set.
L_mint_block_unasserted(k, block) ==
  LET caller == k.locals.caller
      block_height == k.locals.block_height
  IN
  IF block.operation # "Transfer" THEN Finish(k, "ErrorOperationStyle")
  ELSE IF AccountIdentifier(caller, k.locals.sub_account) # block.from
  THEN Finish(k, "Unauthorized")
  ELSE IF AccountIdentifier(Canister, "none") # block.to
  THEN Finish(k, "ErrorTo")
  ELSE IF block.amount < THRESHOLD THEN Finish(k, "AmountTooSmall")
  ELSE LET value == block.amount
           user_balance == L_balance_of(caller)
       IN /\ UsedBlocks' = UsedBlocks \cup {block_height}
          /\ BALANCES' = Ins(BALANCES, caller, user_balance + value)
          /\ STATS' = [STATS EXCEPT !.total_supply = @ + value,
                                    !.history_size = @ + 1]
          /\ L_insert_into_cap(calls \ {k}, k.id, k.api,
                               TxRecord(caller, "Mint", caller, caller, value, 0, time))
          /\ ret' = NoReply
          /\ UNCHANGED <<ALLOWS, cap, time, StatsData, Genesis>>

\* mint from the block it fetched on, without the blocks.remove of the failed
\* validations: the height stays in the used-block set.
L_mint_block_keeps_height(k, block) ==
  LET caller == k.locals.caller
      block_height == k.locals.block_height
      Failed(res) ==
        /\ UsedBlocks' = UsedBlocks \cup {block_height}
        /\ calls' = calls \ {k}
        /\ Return(k.api, res)
        /\ UNCHANGED <<BALANCES, ALLOWS, STATS, TXLOG, cap, time, StatsData, Genesis>>
  IN
  IF block.operation # "Transfer" THEN Finish(k, "ErrorOperationStyle")
  ELSE IF block_height \in UsedBlocks THEN Finish(k, "Panic")
  ELSE IF AccountIdentifier(caller, k.locals.sub_account) # block.from
  THEN Failed("Unauthorized")
  ELSE IF AccountIdentifier(Canister, "none") # block.to
  THEN Failed("ErrorTo")
  ELSE IF block.amount < THRESHOLD THEN Failed("AmountTooSmall")
  ELSE LET value == block.amount
           user_balance == L_balance_of(caller)
       IN /\ UsedBlocks' = UsedBlocks \cup {block_height}
          /\ BALANCES' = Ins(BALANCES, caller, user_balance + value)
          /\ STATS' = [STATS EXCEPT !.total_supply = @ + value,
                                    !.history_size = @ + 1]
          /\ L_insert_into_cap(calls \ {k}, k.id, k.api,
                               TxRecord(caller, "Mint", caller, caller, value, 0, time))
          /\ ret' = NoReply
          /\ UNCHANGED <<ALLOWS, cap, time, StatsData, Genesis>>

\* mint from the block it fetched on.  A panic in the reply undoes what the
\* reply did and ends the call.
L_mint_block(k, block) ==
  LET caller == k.locals.caller
      block_height == k.locals.block_height
  IN
  IF block.operation # "Transfer" THEN Finish(k, "ErrorOperationStyle")
  ELSE IF block_height \in UsedBlocks THEN Finish(k, "Panic")  \* assert_eq!
  ELSE IF AccountIdentifier(caller, k.locals.sub_account) # block.from
  THEN Finish(k, "Unauthorized")         \* the height is inserted and removed
  ELSE IF AccountIdentifier(Canister, "none") # block.to
  THEN Finish(k, "ErrorTo")
  ELSE IF block.amount < THRESHOLD THEN Finish(k, "AmountTooSmall")
  ELSE LET value == block.amount
           user_balance == L_balance_of(caller)
       IN /\ UsedBlocks' = UsedBlocks \cup {block_height}
          /\ BALANCES' = Ins(BALANCES, caller, user_balance + value)
          /\ STATS' = [STATS EXCEPT !.total_supply = @ + value,
                                    !.history_size = @ + 1]
          /\ L_insert_into_cap(calls \ {k}, k.id, k.api,
                               TxRecord(caller, "Mint", caller, caller, value, 0, time))
          /\ ret' = NoReply
          /\ UNCHANGED <<ALLOWS, cap, time, StatsData, Genesis>>

\* mintFor up to its first await
L_mint_for(caller, sub_account, block_height, to_p) ==
  /\ Suspend("mintFor", "block_pb",
             Locals(caller, sub_account, block_height, to_p, 0))
  /\ UNCHANGED <<BALANCES, ALLOWS, STATS, TXLOG, cap, kit>>

\* mintFor from the block it fetched on: total_supply and history_size are
\* those of the storage's StatsData.
L_mint_for_block(k, block) ==
  LET caller == k.locals.caller
      block_height == k.locals.block_height
      to_p == k.locals.to_p
  IN
  IF block.operation # "Transfer" THEN Finish(k, "ErrorOperationStyle")
  ELSE IF block_height \in UsedBlocks THEN Finish(k, "Panic")  \* assert_eq!
  ELSE IF AccountIdentifier(to_p, k.locals.sub_account) # block.from
  THEN Finish(k, "Unauthorized")
  ELSE IF AccountIdentifier(Canister, "none") # block.to
  THEN Finish(k, "ErrorTo")
  ELSE IF block.amount < THRESHOLD THEN Finish(k, "AmountTooSmall")
  ELSE LET value == block.amount
           user_balance == L_balance_of(to_p)
       IN /\ UsedBlocks' = UsedBlocks \cup {block_height}
          /\ BALANCES' = Ins(BALANCES, to_p, user_balance + value)
          /\ StatsData' = [StatsData EXCEPT !.total_supply = @ + value,
                                            !.history_size = @ + 1]
          /\ L_insert_into_cap(calls \ {k}, k.id, k.api,
                               TxRecord(caller, "Mint", to_p, to_p, value, 0, time))
          /\ ret' = NoReply
          /\ UNCHANGED <<ALLOWS, cap, time, STATS, Genesis>>

\* The reply of block_pb to a mint or a mintFor.
block_pb_reply(k, response) ==
  /\ k \in calls
  /\ k.pc = "block_pb"
  /\ response \in BlockResponses(k.locals.block_height)
  /\ CASE response = "Block" ->
            IF k.api = "mint" THEN L_mint_block(k, Ledger[k.locals.block_height])
            ELSE L_mint_for_block(k, Ledger[k.locals.block_height])
       [] response = "Archived" ->
            /\ calls' = (calls \ {k}) \cup {[k EXCEPT !.pc = "get_block_pb"]}
            /\ ret' = NoReply
            /\ UNCHANGED <<BALANCES, ALLOWS, STATS, TXLOG, cap, time, kit>>
       [] OTHER -> Finish(k, "Other")

\* The reply of the archive's get_block_pb to a mint or a mintFor.
get_block_pb_reply(k, response) ==
  /\ k \in calls
  /\ k.pc = "get_block_pb"
  /\ response \in ArchiveResponses
  /\ IF response = "Block"
     THEN IF k.api = "mint" THEN L_mint_block(k, Ledger[k.locals.block_height])
          ELSE L_mint_for_block(k, Ledger[k.locals.block_height])
     ELSE Finish(k, "Other")

\* withdraw that checks the balance and leaves the deduction for later.
L_withdraw_deducts_late(caller, value, to) ==
  LET caller_balance == L_balance_of(caller)
      stats == StatsData
  IN
  IF value < THRESHOLD THEN L_Abort("withdraw", "AmountTooSmall")
  ELSE IF caller_balance < value \/ stats.total_supply < value
  THEN L_Abort("withdraw", "InsufficientBalance")
  ELSE IF value < ICPFEE \/ to # "hex"
  THEN L_Abort("withdraw", "Trap")
  ELSE /\ Suspend("withdraw", "send_dfx", Locals(caller, "none", 0, "none", value))
       /\ UNCHANGED <<BALANCES, ALLOWS, STATS, TXLOG, cap, kit>>

\* withdraw up to its first await, the call of the ledger's send_dfx
L_withdraw(caller, value, to) ==
  LET caller_balance == L_balance_of(caller)
      stats == StatsData
  IN
  IF value < THRESHOLD THEN L_Abort("withdraw", "AmountTooSmall")
  ELSE IF caller_balance < value \/ stats.total_supply < value
  THEN L_Abort("withdraw", "InsufficientBalance")
  ELSE IF value < ICPFEE \/ to # "hex"
  THEN L_Abort("withdraw", "Trap")                    \* unwrap() of an Err
  ELSE /\ BALANCES' = Ins(BALANCES, caller, caller_balance - value)
       /\ StatsData' = [stats EXCEPT !.total_supply = @ - value]
       /\ Suspend("withdraw", "send_dfx", Locals(caller, "none", 0, "none", value))
       /\ UNCHANGED <<ALLOWS, STATS, TXLOG, cap, UsedBlocks, Genesis>>

\* The reply of send_dfx with a failure branch that gives the balance back
\* and forgets the total supply.
send_dfx_reply_keeps_supply(k, ok) ==
  LET caller == k.locals.caller
      value_nat == k.locals.value
  IN
  /\ k \in calls
  /\ k.pc = "send_dfx"
  /\ IF ok
     THEN /\ STATS' = L__history_inc(STATS)
          /\ L_insert_into_cap(calls \ {k}, k.id, k.api,
                               TxRecord(caller, "Burn", caller, caller, value_nat, 0, time))
          /\ ret' = NoReply
          /\ UNCHANGED <<BALANCES, ALLOWS, cap, time, kit>>
     ELSE /\ BALANCES' = Ins(BALANCES, caller, L_balance_of(caller) + value_nat)
          /\ calls' = calls \ {k}
          /\ Return(k.api, "LedgerTrap")
          /\ UNCHANGED <<ALLOWS, STATS, TXLOG, cap, time, kit>>

\* The reply of send_dfx to a withdraw.
send_dfx_reply(k, ok) ==
  LET caller == k.locals.caller
      value_nat == k.locals.value
  IN
  /\ k \in calls
  /\ k.pc = "send_dfx"
  /\ IF ok
     THEN /\ STATS' = L__history_inc(STATS)
          /\ L_insert_into_cap(calls \ {k}, k.id, k.api,
                               TxRecord(caller, "Burn", caller, caller, value_nat, 0, time))
          /\ ret' = NoReply
          /\ UNCHANGED <<BALANCES, ALLOWS, cap, time, kit>>
     ELSE /\ BALANCES' = Ins(BALANCES, caller, L_balance_of(caller) + value_nat)
          /\ StatsData' = [StatsData EXCEPT !.total_supply = @ + value_nat]
          /\ calls' = calls \ {k}
          /\ Return(k.api, "LedgerTrap")
          /\ UNCHANGED <<ALLOWS, STATS, TXLOG, cap, time, UsedBlocks, Genesis>>

\* The body of a setter behind the _is_auth guard.
L_Guarded(api, caller, stats) ==
  IF ~L__is_auth(caller) THEN L_Abort(api, "Rejected")
  ELSE /\ STATS' = stats
       /\ ret' = NoReply
       /\ time' = time + 1
       /\ UNCHANGED <<BALANCES, ALLOWS, TXLOG, calls, cap, kit>>

L_set_name(caller, name) == L_Guarded("setName", caller, [STATS EXCEPT !.name = name])

L_set_logo(caller, logo) == L_Guarded("setLogo", caller, [STATS EXCEPT !.logo = logo])

L_set_fee(caller, fee) == L_Guarded("setFee", caller, [STATS EXCEPT !.fee = fee])

L_set_fee_to(caller, fee_to) ==
  L_Guarded("setFeeTo", caller, [STATS EXCEPT !.fee_to = fee_to])

L_set_owner(caller, owner) ==
  L_Guarded("setOwner", caller, [STATS EXCEPT !.owner = owner])

\* setGenesis hands the record init kept to the audit log.
L_set_genesis(caller) ==
  IF ~L__is_auth(caller) THEN L_Abort("setGenesis", "Rejected")
  ELSE /\ L_add_record("setGenesis", Genesis.caller, Genesis.operation,
                       Genesis.from, Genesis.to, Genesis.amount, Genesis.fee,
                       Genesis.timestamp)
       /\ ret' = NoReply
       /\ UNCHANGED <<BALANCES, ALLOWS, STATS, cap, kit>>

\* The candid encoding of a HashSet: its elements, in no order.
EncodeSet(set) == {<<x>> : x \in set}

DecodeSet(elems) == {e[1] : e \in elems}

\* What pre_upgrade writes to stable memory: the StatsData, Balances,
\* Allowances, UsedBlocks and TxLog of the storage.  (The CapEnv it stores as
\* well is the address of the audit log, which the model keeps fixed.)
L_pre_upgrade ==
  <<StatsData, EncodeMap(BALANCES), EncodeAllows(ALLOWS), EncodeSet(UsedBlocks),
    TXLOG>>

\* The state of the new instance after post_upgrade: the thread_local STATS
\* and the Genesis of the storage are not restored and hold their defaults.
L_stable_restore(stored) ==
  [STATS |-> StatsDataDefault,
   StatsData |-> stored[1],
   BALANCES |-> DecodeMap(stored[2]),
   ALLOWS |-> DecodeAllows(stored[3]),
   UsedBlocks |-> DecodeSet(stored[4]),
   TXLOG |-> stored[5],
   Genesis |-> GenesisDefault]

L_post_upgrade(stored) ==
  LET r == L_stable_restore(stored) IN
  /\ STATS' = r.STATS
  /\ StatsData' = r.StatsData
  /\ BALANCES' = r.BALANCES
  /\ ALLOWS' = r.ALLOWS
  /\ UsedBlocks' = r.UsedBlocks
  /\ TXLOG' = r.TXLOG
  /\ Genesis' = r.Genesis

\* An upgrade of the stopped canister: pre_upgrade on the old instance, then
\* post_upgrade on the new one.
L_upgrade ==
  /\ calls = {}
  /\ L_post_upgrade(L_pre_upgrade)
  /\ time' = time + 1
  /\ ret' = [op |-> "upgrade", res |-> "Done"]
  /\ UNCHANGED <<calls, cap>>

(***************************************************************************)
(* Specification of the ledger-linked variant                              *)
(***************************************************************************)
L_Init ==
  \E initial_supply \in Supplies, owner \in Deployers, fee \in Fees,
     fee_to \in Principals :
    L_init("logo", "token", "TOKEN", 2, initial_supply, owner, fee, fee_to)

L_Next ==
  \/ \E caller, to \in Principals, value \in Values :
       Explored /\ L_transfer(caller, to, value)
  \/ \E caller, from, to \in Principals, value \in Values :
       Explored /\ L_transfer_from(caller, from, to, value)
  \/ \E caller, spender \in Principals, value \in Values :
       Explored /\ L_approve(caller, spender, value)
  \/ \E caller \in Principals, sub_account \in Subaccounts,
        block_height \in BlockHeights :
       Explored /\ L_mint(caller, sub_account, block_height)
  \/ \E caller \in Relayers, to_p \in Principals, sub_account \in Subaccounts,
        block_height \in BlockHeights :
       Explored /\ L_mint_for(caller, sub_account, block_height, to_p)
  \/ \E caller \in Principals, value \in WithdrawValues, to \in Addresses :
       Explored /\ L_withdraw(caller, value, to)
  \/ \E caller \in Principals, name \in Names : Explored /\ L_set_name(caller, name)
  \/ \E caller \in Principals, logo \in Logos : Explored /\ L_set_logo(caller, logo)
  \/ \E caller \in Principals, fee \in Fees : Explored /\ L_set_fee(caller, fee)
  \/ \E caller, fee_to \in Principals : Explored /\ L_set_fee_to(caller, fee_to)
  \/ \E caller, owner \in Principals : Explored /\ L_set_owner(caller, owner)
  \/ \E caller \in Principals : Explored /\ L_set_genesis(caller)
  \/ Explored /\ L_upgrade
  \/ \E k \in calls, response \in {"Err", "None", "Archived", "Block"} :
       ~Aborted /\ block_pb_reply(k, response)
  \/ \E k \in calls, response \in ArchiveResponses :
       ~Aborted /\ get_block_pb_reply(k, response)
  \/ \E k \in calls, ok \in BOOLEAN : ~Aborted /\ send_dfx_reply(k, ok)
  \/ \E k \in calls, ok \in BOOLEAN : ~Aborted /\ L_retry_reply(k, ok)
  \/ \E k \in calls, ok \in BOOLEAN : ~Aborted /\ L_insert_reply(k, ok)

L_Spec == L_Init /\ [][L_Next]_vars

(***************************************************************************)
(* The audit outbox of the ledger-linked variant under more submissions:   *)
(* the deployer's transfers and mints with no fee, setGenesis, and the     *)
(* replies of the ledger and of the audit log.                             *)
(***************************************************************************)
L_AuditInit ==
  L_init("logo", "token", "TOKEN", 2, MaxInitSupply, "alice", 0, "alice")

L_AuditNext ==
  \/ \E caller \in Deployers, to \in Principals, value \in Values :
       AuditExplored /\ L_transfer(caller, to, value)
  \/ \E caller \in Deployers, sub_account \in Subaccounts,
        block_height \in BlockHeights :
       AuditExplored /\ L_mint(caller, sub_account, block_height)
  \/ \E caller \in Deployers : AuditExplored /\ L_set_genesis(caller)
  \/ \E k \in calls, response \in {"Err", "None", "Archived", "Block"} :
       ~Aborted /\ block_pb_reply(k, response)
  \/ \E k \in calls, response \in ArchiveResponses :
       ~Aborted /\ get_block_pb_reply(k, response)
  \/ \E k \in calls, ok \in BOOLEAN : ~Aborted /\ L_retry_reply(k, ok)
  \/ \E k \in calls, ok \in BOOLEAN : ~Aborted /\ L_insert_reply(k, ok)

L_AuditSpec == L_AuditInit /\ [][L_AuditNext]_vars

(***************************************************************************)
(* The audit outbox of the ledger-linked variant when the audit log        *)
(* recovers: the deployer's transfers and the replies of the audit log.    *)
(* The log may refuse an insert while fewer than MaxSubmissions records    *)
(* have been submitted and accepts every insert from then on; transfers    *)
(* go on for as long as the outbox holds a record.                         *)
(***************************************************************************)
\* The audit log may still refuse an insert.
L_LogFailing == time < 2 + MaxSubmissions

L_LiveExplored ==
  /\ Cardinality(calls) < MaxCalls
  /\ L_LogFailing \/ TXLOG # <<>>

\* An operation submits a new record.
L_Submitting ==
  \E caller \in Deployers, to \in Principals, value \in Values :
    L_LiveExplored /\ L_transfer(caller, to, value) /\ ret' = NoReply

\* The audit log answers an insert.
L_Replying ==
  \E k \in calls, ok \in BOOLEAN :
    /\ ok \/ L_LogFailing
    /\ L_retry_reply(k, ok) \/ L_insert_reply(k, ok)

L_LiveNext ==
  \/ \E caller \in Deployers, to \in Principals, value \in Values :
       L_LiveExplored /\ L_transfer(caller, to, value)
  \/ \E k \in calls, ok \in BOOLEAN :
       (ok \/ L_LogFailing) /\ L_retry_reply(k, ok)
  \/ \E k \in calls, ok \in BOOLEAN :
       (ok \/ L_LogFailing) /\ L_insert_reply(k, ok)

\* Every inter-canister call is answered (weak fairness of the replies), and
\* operations keep submitting records whenever they can (strong fairness: a
\* submission waits while MaxCalls calls are suspended).
L_LiveSpec ==
  /\ L_AuditInit
  /\ [][L_LiveNext]_vars
  /\ WF_vars(L_Replying)
  /\ SF_vars(L_Submitting)

(***************************************************************************)
(* Deposits and withdrawals of the ledger-linked variant under more        *)
(* submissions: a relayer's mintFor for the deployer, the deployer's       *)
(* withdrawals and transfers, and the replies of the ledger and of the     *)
(* audit log.                                                              *)
(***************************************************************************)
L_WithdrawNext ==
  \/ \E caller \in Relayers, to_p \in Deployers, sub_account \in Subaccounts,
        block_height \in BlockHeights :
       AuditExplored /\ L_mint_for(caller, sub_account, block_height, to_p)
  \/ \E caller \in Deployers, value \in WithdrawValues, to \in Addresses :
       AuditExplored /\ L_withdraw(caller, value, to)
  \/ \E caller \in Deployers, to \in Principals, value \in Values :
       AuditExplored /\ L_transfer(caller, to, value)
  \/ \E k \in calls, response \in {"Err", "None", "Archived", "Block"} :
       ~Aborted /\ block_pb_reply(k, response)
  \/ \E k \in calls, response \in ArchiveResponses :
       ~Aborted /\ get_block_pb_reply(k, response)
  \/ \E k \in calls, ok \in BOOLEAN : ~Aborted /\ send_dfx_reply(k, ok)
  \/ \E k \in calls, ok \in BOOLEAN : ~Aborted /\ L_retry_reply(k, ok)
  \/ \E k \in calls, ok \in BOOLEAN : ~Aborted /\ L_insert_reply(k, ok)

L_WithdrawSpec == L_AuditInit /\ [][L_WithdrawNext]_vars

(***************************************************************************)
(* Properties of the fee-forwarding variant                                *)
(***************************************************************************)
\* The records the program or the audit log holds.
Records ==
  {k.ie : k \in calls} \cup {cap[i] : i \in 1..Len(cap)}
    \cup {TXLOG[i] : i \in 1..Len(TXLOG)}

\* allowance(owner, spender) in the allowances a
allowance_in(a, owner, spender) ==
  IF owner \in DOMAIN a THEN Get(a[owner], spender) ELSE 0

\* The step passed the call's checks and suspended on the audit log.
Committed == ret' = NoReply

\* What every step of the update call api does to ret: the call suspends or
\* it is turned down as api.  (A cheap test made ahead of the call's formula.)
StepOf(api) == ret' = NoReply \/ (ret'.op = api /\ ret'.res \notin {"Ok", "Other"})

\* x's balance after the step is its balance before, less out, plus in.
Moved(x, out, in) == Get(BALANCES', x) = balance_of(x) - out + in

Distinct3(a, b, c) == a # b /\ a # c /\ b # c

\* C1: in every reachable state of the fee-forwarding variant, also while
\* calls are suspended on audit delivery, the stored balances sum to
\* total_supply.
C1_SumIsTotalSupply == Sum(BALANCES) = STATS.total_supply

\* A mint and a transfer that charged a fee are both suspended on the audit
\* log, and the balances are spread over several accounts.
C1_Witness ==
  /\ \E k \in calls : k.ie.operation = "Mint" /\ k.ie.amount > 0
  /\ \E k \in calls : k.ie.operation = "Transfer" /\ k.ie.fee > 0 /\ k.ie.amount > 0
  /\ Cardinality(DOMAIN BALANCES) >= 2

\* C2: ledger-linked variant: whenever no update call is under way, the stored
\* balances sum to the total supply totalSupply() returns.
C2_SumIsTotalSupply == calls = {} => Sum(BALANCES) = L_total_supply

\* C3: no account is stored in the balances map with value zero.
C3_NoZeroBalance == \A p \in DOMAIN BALANCES : BALANCES[p] # 0

\* C4: no allowance is stored with value zero and no owner is mapped to an
\* empty inner map.
C4_AllowancesPruned ==
  \A o \in DOMAIN ALLOWS :
    /\ DOMAIN ALLOWS[o] # {}
    /\ \A s \in DOMAIN ALLOWS[o] : ALLOWS[o][s] # 0

\* A transferFrom has spent a whole allowance, the only one its owner had
\* granted, and the owner is gone from the outer map.
C4_Witness ==
  \E k \in calls :
    /\ k.ie.operation = "TransferFrom"
    /\ k.ie.amount + k.ie.fee > 0
    /\ k.ie.from \notin DOMAIN ALLOWS

\* C5: a transfer(to, value) by caller that passes its check, with caller, to
\* and the fee recipient pairwise distinct, takes value + fee from caller,
\* gives value to to and fee to the fee recipient, and changes no other
\* balance and not total_supply.
C5_TransferMovesExactly ==
  [][\A c, t \in Principals, v \in Values :
       (Committed /\ Distinct3(c, t, STATS.fee_to) /\ transfer(c, t, v)) =>
         /\ Moved(c, v + STATS.fee, 0)
         /\ Moved(t, 0, v)
         /\ Moved(STATS.fee_to, 0, STATS.fee)
         /\ \A x \in Principals \ {c, t, STATS.fee_to} : Moved(x, 0, 0)
         /\ STATS'.total_supply = STATS.total_supply]_vars

\* A transfer of a positive value with a positive fee between three distinct
\* accounts is suspended on the audit log.
C5_Witness ==
  \E k \in calls :
    /\ k.ie.operation = "Transfer"
    /\ k.ie.amount > 0 /\ k.ie.fee > 0
    /\ STATS.fee > 0
    /\ Distinct3(k.ie.from, k.ie.to, STATS.fee_to)
    /\ balance_of(STATS.fee_to) > 0

\* C6: a transfer by a caller whose balance is below value + fee returns
\* InsufficientBalance, changes no balance, allowance or stats field, leaves
\* the outbox alone and hands no record to the audit log.
C6_TransferInsufficient ==
  [][\A c, t \in Principals, v \in Values :
       (StepOf("transfer") /\ balance_of(c) < v + STATS.fee /\ transfer(c, t, v)) =>
         /\ ret' = [op |-> "transfer", res |-> "InsufficientBalance"]
         /\ UNCHANGED <<BALANCES, ALLOWS, STATS, TXLOG, calls, cap>>]_vars

\* A transfer has been turned down while the fee was positive and some
\* account held tokens.
C6_Witness ==
  /\ ret = [op |-> "transfer", res |-> "InsufficientBalance"]
  /\ STATS.fee > 0
  /\ \E p \in Principals : balance_of(p) > 0

\* C7: after an approve(spender, value) by caller that passes its check the
\* allowance is value + fee whatever it was before, and the fee has been
\* moved from caller to the fee recipient: caller's balance is down by
\* exactly fee (unchanged when caller is the fee recipient itself) and no
\* other account pays.
C7_ApproveSets ==
  [][\A c, s \in Principals, v \in Values :
       (Committed /\ approve(c, s, v)) =>
         /\ allowance_in(ALLOWS', c, s) = v + STATS.fee
         /\ \A x \in Principals :
              Moved(x, IF x = c THEN STATS.fee ELSE 0,
                       IF x = STATS.fee_to THEN STATS.fee ELSE 0)]_vars

\* Two approves of the same spender by the same owner with different grants:
\* the allowance is the later grant.
C7_Witness ==
  \E r1, r2 \in Records :
    /\ r1.operation = "Approve" /\ r2.operation = "Approve"
    /\ r1.from = r2.from /\ r1.to = r2.to
    /\ r1.timestamp < r2.timestamp
    /\ r1.amount > r2.amount /\ r2.fee > 0
    /\ allowance(r2.from, r2.to) = r2.amount

\* C8 as stated: a transferFrom(from, to, value) by spender that passes its
\* checks takes value + fee off allowance(from, spender), takes value + fee
\* from from's balance, adds value to to's balance, and leaves the spender's
\* balance alone when the spender is none of from, to and the fee recipient.
C8_AsStated ==
  [][\A o, f, t \in Principals, v \in Values :
       (Committed /\ transfer_from(o, f, t, v)) =>
         /\ allowance_in(ALLOWS', f, o) = allowance(f, o) - (v + STATS.fee)
         /\ Moved(f, v + STATS.fee, 0)
         /\ Moved(t, 0, v)
         /\ (o \notin {f, t, STATS.fee_to} => Moved(o, 0, 0))]_vars

\* C8 amended: the allowance goes down by exactly value + fee, and every
\* account's balance changes by what it pays as from (value + fee) and what it
\* gets as to (value) and as fee recipient (fee): from is down by value + fee
\* and to is up by value when from, to and the fee recipient are pairwise
\* distinct, and an account that is none of them, the spender included, keeps
\* its balance.
C8_TransferFromMoves ==
  [][\A o, f, t \in Principals, v \in Values :
       (Committed /\ transfer_from(o, f, t, v)) =>
         /\ allowance_in(ALLOWS', f, o) = allowance(f, o) - (v + STATS.fee)
         /\ \A x \in Principals :
              Moved(x, IF x = f THEN v + STATS.fee ELSE 0,
                       (IF x = t THEN v ELSE 0)
                         + (IF x = STATS.fee_to THEN STATS.fee ELSE 0))]_vars

\* A transferFrom by a spender that is none of from, to and the fee recipient
\* has spent part of a larger allowance, fee included.
C8_Witness ==
  \E k \in calls :
    /\ k.ie.operation = "TransferFrom"
    /\ k.ie.caller \notin {k.ie.from, k.ie.to, STATS.fee_to}
    /\ k.ie.fee > 0 /\ k.ie.amount > 0
    /\ allowance(k.ie.from, k.ie.caller) > 0

\* C9: transferFrom returns InsufficientAllowance whenever the allowance is
\* below value + fee, whatever from's balance; otherwise InsufficientBalance
\* whenever from's balance is below value + fee; and in both cases balances,
\* allowances and stats are as before.
C9_TransferFromErrors ==
  [][\A o, f, t \in Principals, v \in Values :
       (StepOf("transferFrom") /\ transfer_from(o, f, t, v)) =>
         /\ allowance(f, o) < v + STATS.fee =>
              /\ ret' = [op |-> "transferFrom", res |-> "InsufficientAllowance"]
              /\ UNCHANGED <<BALANCES, ALLOWS, STATS>>
         /\ (allowance(f, o) >= v + STATS.fee /\ balance_of(f) < v + STATS.fee) =>
              /\ ret' = [op |-> "transferFrom", res |-> "InsufficientBalance"]
              /\ UNCHANGED <<BALANCES, ALLOWS, STATS>>]_vars

\* A transferFrom within its allowance has been turned down for from's
\* balance.
C9_Witness ==
  /\ ret = [op |-> "transferFrom", res |-> "InsufficientBalance"]
  /\ ALLOWS # EmptyMap

\* C10: a mint by a caller that is not the current owner is rejected and
\* leaves balances, total_supply and history size alone; a mint by the owner
\* adds exactly amount to to's balance and to total_supply, changes no other
\* balance and records a zero fee.
C10_MintOwnerOnly ==
  [][\A c, t \in Principals, a \in Values :
       (StepOf("mint") /\ mint(c, t, a)) =>
         IF c # STATS.owner
         THEN /\ ret' = [op |-> "mint", res |-> "Rejected"]
              /\ UNCHANGED <<BALANCES, STATS, calls>>
         ELSE /\ Committed
              /\ Moved(t, 0, a)
              /\ \A x \in Principals \ {t} : Moved(x, 0, 0)
              /\ STATS'.total_supply = STATS.total_supply + a
              /\ \E k \in calls' \ calls : k.ie.operation = "Mint" /\ k.ie.fee = 0]_vars

\* After a setOwner, the new owner has minted while the fee was positive.
C10_Witness ==
  \E k \in calls :
    /\ k.ie.operation = "Mint"
    /\ k.ie.caller \notin Deployers
    /\ k.ie.amount > 0
    /\ STATS.fee > 0

\* What the _is_auth guard makes of a call of api by c: a caller that is not
\* the owner is rejected and nothing changes, the owner's call is accepted.
OwnerOnly(api, c) ==
  IF c # STATS.owner
  THEN /\ ret' = [op |-> api, res |-> "Rejected"]
       /\ UNCHANGED <<BALANCES, ALLOWS, STATS, TXLOG, calls, cap>>
  ELSE ret' = NoReply

\* C11: a setName, setLogo, setFee, setFeeTo or setOwner by a caller that is
\* not the current owner, a former owner included, is rejected and leaves
\* config, balances, allowances and outbox alone; by the current owner it is
\* accepted.
C11_SettersOwnerOnly ==
  [][\A c \in Principals :
       /\ \A n \in Names : set_name(c, n) => OwnerOnly("setName", c)
       /\ \A l \in Logos : set_logo(c, l) => OwnerOnly("setLogo", c)
       /\ \A f \in Fees : set_fee(c, f) => OwnerOnly("setFee", c)
       /\ \A p \in Principals : set_fee_to(c, p) => OwnerOnly("setFeeTo", c)
       /\ \A p \in Principals : set_owner(c, p) => OwnerOnly("setOwner", c)]_vars

\* A setter has been rejected after a setOwner took the ownership from the
\* deployer.
C11_Witness ==
  /\ ret.op \in {"setName", "setLogo", "setFee", "setFeeTo", "setOwner"}
  /\ ret.res = "Rejected"
  /\ STATS.owner \notin Deployers

\* The step wrote exactly the config field named field, with value v, and
\* nothing else of the ledger or the outbox.
OneField(field, v) ==
  /\ STATS'[field] = v
  /\ \A g \in DOMAIN STATS \ {field} : STATS'[g] = STATS[g]
  /\ UNCHANGED <<BALANCES, ALLOWS, TXLOG, calls, cap>>

\* C12: an accepted setName, setLogo, setFee, setFeeTo or setOwner changes
\* the one config field it names and no other config field, balance,
\* allowance, total_supply, history size or outbox record.
C12_SettersOneField ==
  [][\A c \in Principals :
       c = STATS.owner =>
         /\ \A n \in Names : set_name(c, n) => OneField("name", n)
         /\ \A l \in Logos : set_logo(c, l) => OneField("logo", l)
         /\ \A f \in Fees : set_fee(c, f) => OneField("fee", f)
         /\ \A p \in Principals : set_fee_to(c, p) => OneField("fee_to", p)
         /\ \A p \in Principals : set_owner(c, p) => OneField("owner", p)]_vars

\* The fee recipient and then the owner have been set, to different accounts,
\* while an account held tokens.
C12_Witness ==
  /\ STATS.owner \notin Deployers
  /\ STATS.fee_to \notin {STATS.owner} \cup Deployers
  /\ time = 2 + MaxMessages
  /\ calls = {} /\ cap = <<>> /\ TXLOG = <<>>
  /\ \E p \in Principals : balance_of(p) > 0

\* The records the step handed to insert_into_cap: a call suspends with a
\* record no suspended call had.
Submitted == {k.ie : k \in calls'} \ {k.ie : k \in calls}

\* C13: fee-forwarding variant: the history size is 1 after init, goes up by
\* exactly 1 in every step in which a transfer, transferFrom, approve, mint
\* or burn succeeds, and is the same after every other step (a failed or
\* rejected call, an admin call, a reply of the audit log): it never
\* decreases.
C13_HistorySize ==
  /\ STATS.history_size = 1
  /\ [][/\ STATS'.history_size =
            STATS.history_size + (IF Submitted # {} THEN 1 ELSE 0)
         /\ \A r \in Submitted :
              r.operation \in {"Transfer", "TransferFrom", "Approve", "Mint", "Burn"}
         /\ STATS'.history_size >= STATS.history_size]_vars

\* A mint and a burn have succeeded and a setter has not moved the counter.
C13_Witness ==
  /\ STATS.history_size = 1 + MaxMessages
  /\ \E r \in Records : r.operation = "Burn" /\ r.amount > 0
  /\ \E r \in Records : r.operation = "Mint"

C15_UpgradeRoundTrip ==
  LET r == L_stable_restore(L_pre_upgrade) IN
  /\ \A f \in {"name", "symbol", "owner", "fee", "fee_to", "total_supply",
               "history_size"} : r.STATS[f] = STATS[f]
  /\ r.BALANCES = BALANCES
  /\ r.ALLOWS = ALLOWS
  /\ r.UsedBlocks = UsedBlocks
  /\ r.TXLOG = TXLOG
  /\ r.Genesis = Genesis

\* The records the audit log has accepted.
Delivered == {cap[i] : i \in 1..Len(cap)}

\* The records on their way to the audit log: the new record of every
\* suspended call, and the failed record a call is sending again.
InFlight ==
  {k.ie : k \in calls} \cup {k.failed_ie[1] : k \in {c \in calls : c.pc = "retry"}}

\* The records waiting in the outbox.
Queued == {TXLOG[i] : i \in 1..Len(TXLOG)}

\* C16: fee-forwarding variant: a record handed to insert_into_cap is at
\* every later moment delivered, in flight or in the outbox: every step keeps
\* the records that were so, and the one it hands in.
C16_NoRecordDropped ==
  [][(Delivered \cup InFlight \cup Queued \cup Submitted)
       \subseteq (Delivered \cup InFlight \cup Queued)']_vars

\* Ledger-linked variant: the records on their way to the audit log.
L_InFlight ==
  {k.ie[1] : k \in {c \in calls : c.ie # <<>>}}
    \cup {k.failed_ie[1] : k \in {c \in calls : c.pc = "retry"}}

\* Ledger-linked variant: the records a step hands to insert_into_cap.
L_Submitted ==
  {k.ie[1] : k \in {c \in calls' : c.ie # <<>>}}
    \ {k.ie[1] : k \in {c \in calls : c.ie # <<>>}}

\* The number of places that hold the record r: entries of the audit log,
\* entries of the outbox, and suspended calls sending it.
Places(r) ==
  Cardinality({i \in 1..Len(cap) : cap[i] = r})
    + Cardinality({i \in 1..Len(TXLOG) : TXLOG[i] = r})
    + Cardinality({k \in calls : k.ie = <<r>>})
    + Cardinality({k \in calls : k.pc = "retry" /\ k.failed_ie = <<r>>})

\* The record of an operation, as opposed to the genesis record, whose
\* sender is the management canister or, after an upgrade, the default.
OfOperation(r) == r.from \in Principals

\* C17: ledger-linked variant: every step keeps each record that is
\* delivered, in flight or in the outbox, and the one it hands to
\* insert_into_cap, in one of the three; and at every moment a record of
\* transfer, transferFrom, approve, mint, mintFor or withdraw is in exactly
\* one place, so the audit log holds it at most once.
C17_ExactlyOnePlace ==
  /\ [](\A r \in Delivered \cup L_InFlight \cup Queued :
          OfOperation(r) => Places(r) = 1)
  /\ [][(Delivered \cup L_InFlight \cup Queued \cup L_Submitted)
          \subseteq (Delivered \cup L_InFlight \cup Queued)']_vars

\* Three records of operations: one delivered, one taken from the outbox and
\* sent again by a suspended call, and the new record of that call.
C17_Witness ==
  /\ \E r \in Delivered : OfOperation(r)
  /\ \E k \in calls : k.pc = "retry" /\ OfOperation(k.failed_ie[1])
                        /\ OfOperation(k.ie[1])

\* The record r is in the outbox behind a record made after the call k began.
BehindLater(k, r) ==
  \E i, j \in 1..Len(TXLOG) :
    /\ i < j
    /\ TXLOG[j] = r
    /\ TXLOG[i].timestamp > k.id

\* C18: ledger-linked variant: the outbox keeps the order in which records
\* first entered it.  A record that a suspended call took from the head of
\* the outbox was in it before that call began, so it first entered before
\* every record made later; when its retry has failed it is never behind
\* such a record in the outbox.
C18_OutboxOrder ==
  \A k \in calls :
    (k.pc = "new" /\ k.failed_ie # <<>>) => ~BehindLater(k, k.failed_ie[1])

\* C19: fee-forwarding variant, where a record carries the time its
\* operation committed: the audit log accepts records in the order their
\* operations committed, so every record that committed before an accepted
\* one, and is delivered, in flight or in the outbox, was accepted ahead of it.
C19_DeliveryInOrder ==
  \A j \in 1..Len(cap) :
    \A r1 \in Delivered \cup InFlight \cup Queued :
      r1.timestamp < cap[j].timestamp => \E i \in 1..(j - 1) : cap[i] = r1

\* The suspended calls among cs that are inside insert_into_cap.
Inserting(cs) == {k \in cs : k.pc \in {"retry", "new"}}

\* C20: ledger-linked variant: a call of insert_into_cap issues at most two
\* inserts.  A call that enters it with a record in the outbox removes the
\* head of the outbox and sends that first; the reply to it, whatever it is,
\* returns nothing to the caller and is followed by the insert of the new
\* record only; a call that enters it with the outbox empty sends the new
\* record only; the reply to the new record ends the call with that outcome.
C20_AtMostTwoInserts ==
  [][/\ \A k \in Inserting(calls') :
          k.id \notin {c.id : c \in Inserting(calls)} =>
            IF TXLOG # <<>>
            THEN /\ k.pc = "retry"
                 /\ k.failed_ie = <<Head(TXLOG)>>
                 /\ TXLOG' = Tail(TXLOG)
            ELSE /\ k.pc = "new"
                 /\ k.failed_ie = <<>>
                 /\ TXLOG' = TXLOG
     /\ \A k \in Inserting(calls) :
          k \notin calls' =>
            IF k.pc = "retry"
            THEN /\ [k EXCEPT !.pc = "new"] \in calls'
                 /\ ret' = NoReply
            ELSE /\ k.id \notin {c.id : c \in calls'}
                 /\ ret' = [op |-> k.api,
                            res |-> IF cap' = Append(cap, k.ie[1])
                                    THEN "Ok" ELSE "Other"]]_vars

\* A call sends its new record after the head of the outbox, which it sent
\* first, was accepted, while another record waits in the outbox.
C20_Witness ==
  \E k \in calls :
    /\ k.pc = "new"
    /\ k.failed_ie # <<>>
    /\ k.failed_ie[1] \in Delivered
    /\ TXLOG # <<>>

\* C21: the reply to the insert of a call's new record.  When the insert
\* failed the record is the new last entry of the outbox, the audit log is as
\* it was and the caller receives Other; when it was accepted the record is
\* the new last entry of the audit log, whose position is the id the caller
\* receives with Ok, and the outbox is as it was: the record is not put in it.
C21_InsertOutcome ==
  [][\A k \in calls :
       (k.pc = "new" /\ k \notin calls') =>
         \/ /\ TXLOG' = Append(TXLOG, k.ie[1])
            /\ cap' = cap
            /\ ret' = [op |-> k.api, res |-> "Other"]
         \/ /\ cap' = Append(cap, k.ie[1])
            /\ TXLOG' = TXLOG
            /\ ret' = [op |-> k.api, res |-> "Ok"]]_vars

\* A call has just received Other, and its record is in the outbox behind
\* another one.
C21_Witness ==
  /\ ret.res = "Other"
  /\ Len(TXLOG) >= 2
  /\ TXLOG[Len(TXLOG)].timestamp > TXLOG[1].timestamp

\* C22: fee-forwarding variant: transfer, transferFrom, approve, mint and
\* burn suspend on the audit insert after their checks and their changes of
\* the ledger; whatever the reply to the insert of their record, the call
\* returns Ok, and a record whose insert failed is put in the outbox.
C22_AuditFailureAbsorbed ==
  [][\A k \in calls :
       (/\ k.pc = "new"
        /\ k \notin calls'
        /\ k.api \in {"transfer", "transferFrom", "approve", "mint", "burn"}) =>
         /\ ret' = [op |-> k.api, res |-> "Ok"]
         /\ cap' = cap => TXLOG' = Append(TXLOG, k.ie)]_vars

\* C23: the outbox holds at most one record at every moment, whatever the
\* replies of the audit log.
C23_OutboxSingleSlot == Len(TXLOG) <= 1

\* The record of the genesis mint: init's add_record arguments.
GenesisRecord ==
  TxRecord(STATS.owner, "Mint", STATS.owner, STATS.owner, STATS.total_supply,
           0, STATS.deploy_time)

\* C24: fee-forwarding variant: after init the record of the genesis mint has
\* been handed to the outbox, an insert being attempted for it; and every
\* step that changes balances, allowances or the total supply hands in
\* exactly one record, with the history size already one higher.
C24_EveryMutationRecorded ==
  /\ GenesisRecord \in InFlight
  /\ [][<<BALANCES, ALLOWS, STATS.total_supply>>'
          # <<BALANCES, ALLOWS, STATS.total_supply>> =>
            /\ Cardinality(Submitted) = 1
            /\ Cardinality(calls') = Cardinality(calls) + 1
            /\ STATS'.history_size = STATS.history_size + 1]_vars

\* C25: ledger-linked variant: a withdraw that suspends on send_dfx has taken
\* exactly value from the caller's balance and from the total supply of the
\* storage; when the send fails, exactly value is added to the caller's
\* balance and to that total supply as they are then, no other balance
\* changes, LedgerTrap is returned, the thread_local metadata with the
\* history size is as it was, and no record is handed to insert_into_cap.
C25_WithdrawRollback ==
  [][/\ \A k \in calls' :
          (k.pc = "send_dfx" /\ k.id \notin {c.id : c \in calls}) =>
            /\ BALANCES' = Ins(BALANCES, k.locals.caller,
                               L_balance_of(k.locals.caller) - k.locals.value)
            /\ StatsData'.total_supply = StatsData.total_supply - k.locals.value
            /\ STATS' = STATS
     /\ \A k \in calls :
          (k.pc = "send_dfx" /\ k.id \notin {c.id : c \in calls'}) =>
            /\ BALANCES' = Ins(BALANCES, k.locals.caller,
                               L_balance_of(k.locals.caller) + k.locals.value)
            /\ StatsData'.total_supply = StatsData.total_supply + k.locals.value
            /\ STATS' = STATS
            /\ L_Submitted = {}
            /\ TXLOG' = TXLOG
            /\ cap' = cap
            /\ ret' = [op |-> "withdraw", res |-> "LedgerTrap"]]_vars

\* A withdraw has returned LedgerTrap while a transfer that moved tokens of
\* the same caller is suspended.
C25_Witness ==
  /\ ret = [op |-> "withdraw", res |-> "LedgerTrap"]
  /\ \E k \in calls :
       /\ k.api = "transfer"
       /\ k.ie[1].amount > 0
       /\ k.ie[1].from # k.ie[1].to

\* C26: ledger-linked variant: a mint or mintFor has put its block height in
\* the used-block set before its first await: while the call is suspended on
\* the fetch of the block, from the ledger or from its archive, the height is
\* in UsedBlocks.
C26_UsedBeforeFetch ==
  \A k \in calls :
    k.pc \in {"block_pb", "get_block_pb"} => k.locals.block_height \in UsedBlocks

\* The suspended calls of mint and mintFor that the step takes from the
\* fetch of their block to the audit insert: the calls that credit.
Credited ==
  {k \in calls : /\ k.pc \in {"block_pb", "get_block_pb"}
                 /\ \E c \in Inserting(calls') : c.id = k.id}

\* C27: ledger-linked variant: a block height credits at most once.  A step
\* raises the total supply of mint or of mintFor only by crediting one call's
\* block; that block's height is not in the used-block set before the step
\* and is in it after; and no step takes a height out of the set.
C27_BlockCreditsOnce ==
  [][/\ \A k \in Credited :
          /\ k.locals.block_height \notin UsedBlocks
          /\ UsedBlocks' = UsedBlocks \cup {k.locals.block_height}
     /\ UsedBlocks \subseteq UsedBlocks'
     /\ (\/ STATS'.total_supply > STATS.total_supply
         \/ (/\ StatsData'.total_supply > StatsData.total_supply
             /\ ret'.res # "LedgerTrap")) =>
          Cardinality(Credited) = 1]_vars

\* Two calls for one block height were suspended on its fetch at once: the
\* later one has credited, the earlier one still waits for the block.
C27_Witness ==
  \E k1, k2 \in calls :
    /\ k1.pc = "block_pb"
    /\ k1.locals.block_height \in UsedBlocks
    /\ k2 \in Inserting(calls)
    /\ k2.api \in {"mint", "mintFor"}
    /\ k1.id < k2.id

\* C28: ledger-linked variant: a mint or mintFor whose block height is in the
\* used-block set never credits; when it ends, it returns BlockUsed (or Other,
\* when the fetch of the block failed) and balances, total supplies, history
\* sizes and the used-block set are as they were.
C28_BlockUsedError ==
  [][\A k \in calls :
       (/\ k.pc \in {"block_pb", "get_block_pb"}
        /\ k.locals.block_height \in UsedBlocks
        /\ k \notin calls') =>
         /\ k \notin Credited
         /\ k.pc = "block_pb" /\ k.id \in {c.id : c \in calls'}
              => ret' = NoReply
         /\ k.id \notin {c.id : c \in calls'} =>
              /\ ret'.op = k.api
              /\ ret'.res \in {"BlockUsed", "Other"}
         /\ UNCHANGED <<BALANCES, STATS, StatsData, UsedBlocks>>]_vars

\* C29: ledger-linked variant: the step in which a mint or mintFor credits
\* leaves its block height in the used-block set, and no later step, an
\* upgrade included, takes a height out of the set; a mint or mintFor that
\* ends with Unauthorized, ErrorTo or AmountTooSmall leaves the set exactly
\* as it was.
C29_UsedBlocksPermanent ==
  [][/\ \A k \in Credited : k.locals.block_height \in UsedBlocks'
     /\ \A h \in UsedBlocks : h \in UsedBlocks'
     /\ \A k \in calls :
          (/\ k.pc \in {"block_pb", "get_block_pb"}
           /\ k.id \notin {c.id : c \in calls'}
           /\ ret'.res \in {"Unauthorized", "ErrorTo", "AmountTooSmall"}) =>
            UsedBlocks' = UsedBlocks]_vars

\* A block has credited and, later, a mint for another block was turned down
\* as Unauthorized.
C29_Witness ==
  /\ UsedBlocks # {}
  /\ ret.op \in {"mint", "mintFor"}
  /\ ret.res = "Unauthorized"

\* C30: the queries balanceOf, allowance, getMetadata, getHolders and
\* getTokenInfo return a value for every argument in every reachable state,
\* getHolders also for a start greater than the number of holders, and the
\* step of a query changes nothing of the canister.
C30_QueriesNeverFail ==
  [][ret'.op \in QueryNames =>
       /\ ret'.res = "Ok"
       /\ UNCHANGED <<BALANCES, ALLOWS, STATS, TXLOG, calls, cap, time, kit>>]_vars

\* C31: ledger-linked variant: the audit log holds the genesis record, the
\* one record that is not of an operation, at most once, however often the
\* owner calls setGenesis.
C31_GenesisOnce ==
  Cardinality({i \in 1..Len(cap) : ~OfOperation(cap[i])}) <= 1

\* C32: ledger-linked variant: the fee that transfer, transferFrom and
\* approve read for their checks, the allowance and the record, the fee of
\* the storage's StatsData, is the fee that _charge_fee charges and the
\* queries return, the fee of the thread_local STATS; and a transfer or an
\* approve never traps on a subtraction.
C32_FeeConsistent ==
  /\ StatsData.fee = STATS.fee
  /\ ~(ret.op \in {"transfer", "approve"} /\ ret.res = "Trap")

\* C33: fee-forwarding variant: a transferFrom ends with the outcome of its
\* audit insert, with InsufficientAllowance or with InsufficientBalance: it
\* never traps on its assertion, its unwrap or a subtraction, for any
\* arguments in any reachable state.
C33_TransferFromNeverTraps ==
  ret.op = "transferFrom" =>
    ret.res \in {"Ok", "Other", "InsufficientAllowance", "InsufficientBalance"}

\* The calls the step suspends on send_dfx: the withdraws whose send it issues.
Issued == {k \in calls' : k.pc = "send_dfx" /\ k.id \notin {c.id : c \in calls}}

\* C34: ledger-linked variant: a send is issued only for a value the caller
\* holds at that moment, and the step that issues it takes the value from the
\* caller's balance, so that the sends in flight at once are never paid from
\* the same tokens; a withdraw that returns InsufficientBalance has issued no
\* send and changed no balance; and the reply of a send that did not fail
\* leaves the balances as the deduction made them.
C34_WithdrawDeductsFirst ==
  [][/\ \A k \in Issued :
          /\ L_balance_of(k.locals.caller) >= k.locals.value
          /\ Get(BALANCES', k.locals.caller)
               = L_balance_of(k.locals.caller) - k.locals.value
     /\ (ret'.op = "withdraw" /\ ret'.res = "InsufficientBalance") =>
          UNCHANGED <<calls, BALANCES, StatsData>>
     /\ \A k \in calls :
          (k.pc = "send_dfx" /\ k.id \in {c.id : c \in Inserting(calls')}) =>
            BALANCES' = BALANCES]_vars

\* While a withdraw of the caller's tokens waits for its send, a second
\* withdraw of the same caller is turned down.
C34_Witness ==
  /\ ret = [op |-> "withdraw", res |-> "InsufficientBalance"]
  /\ \E k \in calls : k.pc = "send_dfx" /\ k.locals.value > 0

\* C35: fee-forwarding variant: a step changes the allowance of a spender
\* from an owner only if it is an approve of that spender by that owner, or a
\* transferFrom by that spender from that owner that passes its checks, which
\* finds an allowance of at least value + fee and lowers it by exactly
\* value + fee; so from one approve to the next the allowance is the grant
\* less the sum of value + fee moved, and that sum never exceeds the grant.
C35_SpendWithinGrant ==
  [][\A f, o \in Principals :
       \/ \E v \in Values : Committed /\ approve(f, o, v)
       \/ \E t \in Principals, v \in Values :
            /\ Committed /\ transfer_from(o, f, t, v)
            /\ allowance(f, o) >= v + STATS.fee
            /\ allowance_in(ALLOWS', f, o) = allowance(f, o) - (v + STATS.fee)
       \/ allowance_in(ALLOWS', f, o) = allowance(f, o)]_vars

\* After one approve a spender has drawn twice on the grant, fee included,
\* and used it up.
C35_Witness ==
  \E r1, r2, g \in Records :
    /\ g.operation = "Approve" /\ g.fee > 0
    /\ r1.operation = "TransferFrom" /\ r2.operation = "TransferFrom"
    /\ r1.caller = g.to /\ r2.caller = g.to
    /\ r1.from = g.from /\ r2.from = g.from
    /\ g.timestamp < r1.timestamp /\ r1.timestamp < r2.timestamp
    /\ \A r \in Records : r.operation = "Approve" => r = g
    /\ r1.amount + r1.fee + r2.amount + r2.fee = g.amount
    /\ allowance(g.from, g.to) = 0

\* C36: fee-forwarding variant: a step that lowers the balance of an account
\* x is a transfer, an approve or a burn called by x that passes its checks,
\* or a transferFrom from x that passes its checks, called by a spender whose
\* allowance from x was at least value + fee; no step of a mint, a setter, an
\* upgrade or a reply of the audit log lowers a balance.
C36_DebitOnlyByHolder ==
  [][\A x \in Principals :
       Get(BALANCES', x) < balance_of(x) =>
         \/ \E t \in Principals, v \in Values : Committed /\ transfer(x, t, v)
         \/ \E s \in Principals, v \in Values : Committed /\ approve(x, s, v)
         \/ \E v \in Values : Committed /\ burn(x, v)
         \/ \E o, t \in Principals, v \in Values :
              /\ Committed /\ transfer_from(o, x, t, v)
              /\ allowance(x, o) >= v + STATS.fee]_vars

\* A spender has moved tokens out of another account that had approved it.
C36_Witness ==
  \E r, q \in Records :
    /\ r.operation = "TransferFrom" /\ r.caller # r.from
    /\ r.amount + r.fee > 0
    /\ Get(BALANCES, r.from) < MaxInitSupply
    /\ q.operation = "Approve" /\ q.from = r.from /\ q.to = r.caller

\* The record submitted at time ts is in the outbox / in the audit log.
QueuedAt(ts) == \E i \in 1..Len(TXLOG) : TXLOG[i].timestamp = ts

DeliveredAt(ts) == \E i \in 1..Len(cap) : cap[i].timestamp = ts

\* C37: ledger-linked variant: when from some point on the audit log accepts
\* every insert and operations keep submitting records, every record that is
\* in the outbox is eventually in the audit log, and from some point on the
\* outbox is empty.
C37_OutboxDrains ==
  /\ \A ts \in 2..(2 + 2 * MaxSubmissions) : QueuedAt(ts) ~> DeliveredAt(ts)
  /\ <>[](TXLOG = <<>>)

\* Records were refused while the log was failing, and the transfers made
\* after it recovered have delivered every record submitted.
C37_Witness ==
  /\ time > 2 + MaxSubmissions
  /\ TXLOG = <<>> /\ calls = {}
  /\ Len(cap) = time - 2
  /\ \E i \in 1..Len(cap) : i < Len(cap) /\ cap[i].timestamp > cap[i + 1].timestamp

\* The calls of api that the step takes from a wait on the ledger to the
\* insert of their record: the operation has succeeded.
Succeeding(api) ==
  {k \in calls : /\ k.api = api
                 /\ k.pc \notin {"retry", "new"}
                 /\ k.id \in {c.id : c \in Inserting(calls')}}

\* C38: ledger-linked variant: the step in which a mint, a mintFor or a
\* withdraw succeeds and hands over its record takes the value of
\* historySize() up by exactly 1, and a step in which one of them returns an
\* error other than that of the audit log leaves it as it was.
C38_HistoryCountsMints ==
  [][/\ \A api \in {"mint", "mintFor", "withdraw"} :
          Succeeding(api) # {} => L_history_size' = L_history_size + 1
     /\ (/\ ret'.op \in {"mint", "mintFor", "withdraw"}
         /\ ret'.res \notin {"Ok", "Other"}) =>
          L_history_size' = L_history_size]_vars

\* C39: ledger-linked variant: a withdraw(value, to) that returns
\* InsufficientBalance was called with a balance below value; and a withdraw
\* of a value not below the fee of the reserve ledger, to a well-formed
\* account, by a caller that holds at least value, takes value from the
\* caller's balance and issues the send.
C39_WithdrawBalanceChecked ==
  [][\A c \in Principals, v \in WithdrawValues, to \in Addresses :
       ((ret' = NoReply \/ ret'.op = "withdraw") /\ L_withdraw(c, v, to)) =>
         /\ ret'.res = "InsufficientBalance" => L_balance_of(c) < v
         /\ (L_balance_of(c) >= v /\ v >= ICPFEE /\ to = "hex") =>
              /\ Get(BALANCES', c) = L_balance_of(c) - v
              /\ \E k \in Issued : k.locals.caller = c /\ k.locals.value = v]_vars

====
